---- MODULE Spec2Model ----
(***************************************************************************)
(* Model of the listing tracker's core: the ingestion coordinator          *)
(* (services/ingest.py) with its three entry points (main.py               *)
(* crawler_ingest, main.py me_ingest_watch_complexes, scheduler.py         *)
(* _run_if_due), the price normalizer and the bargain detector             *)
(* (services/analytics.py), and the alert dispatch engine                  *)
(* (services/alerts.py) with its two callers.                              *)
(*                                                                         *)
(* Conventions.  Python's None is the number -1 wherever the value is an   *)
(* optional non-negative integer or time, and the one-element sequence     *)
(* <<"None">> wherever it is an optional text.  Texts are sequences of     *)
(* one-character strings; the Korean syllables are written as the tokens   *)
(* "eok" (the unit of 10^8 won), "wol" "se" (monthly rent), "mae" (sale),  *)
(* "jeon" (deposit lease).  Times are minutes since 00:00 UTC of day 0.    *)
(***************************************************************************)
EXTENDS Integers, Sequences, FiniteSets, Bags, TLC

None == -1
NoneText == <<"None">>

----------------------------------------------------------------------------
(* Text helpers: str.strip, str.isdigit, int(str).                         *)

RECURSIVE LStrip(_)
LStrip(s) == IF Len(s) > 0 /\ Head(s) = " " THEN LStrip(Tail(s)) ELSE s

RECURSIVE RStrip(_)
RStrip(s) ==
    IF Len(s) > 0 /\ s[Len(s)] = " " THEN RStrip(SubSeq(s, 1, Len(s) - 1)) ELSE s

Strip(s) == RStrip(LStrip(s))

Digits == <<"0", "1", "2", "3", "4", "5", "6", "7", "8", "9">>

IsDigitChar(c) == \E i \in 1..10 : Digits[i] = c

DigitVal(c) == (CHOOSE i \in 1..10 : Digits[i] = c) - 1

\* str.isdigit(): non-empty and every character a digit
IsDigit(s) == Len(s) > 0 /\ \A i \in 1..Len(s) : IsDigitChar(s[i])

RECURSIVE DecimalValue(_)
DecimalValue(s) ==
    IF Len(s) = 0 THEN 0
    ELSE 10 * DecimalValue(SubSeq(s, 1, Len(s) - 1)) + DigitVal(s[Len(s)])

\* A JSON value found under "articleNo": absent/null, a number, or a text.
MissingNo == [kind |-> "none", num |-> 0, text |-> <<>>]
IntNo(n) == [kind |-> "int", num |-> n, text |-> <<>>]
StrNo(s) == [kind |-> "str", num |-> 0, text |-> s]

\* int(article_no): [ok, val]; ok = FALSE is the TypeError/ValueError branch.
PyInt(raw) ==
    IF raw.kind = "int" THEN [ok |-> TRUE, val |-> raw.num]
    ELSE IF raw.kind # "str" THEN [ok |-> FALSE, val |-> 0]
    ELSE LET t == Strip(raw.text)
             signed == Len(t) > 0 /\ Head(t) \in {"-", "+"}
             body == IF signed THEN Tail(t) ELSE t
         IN  IF IsDigit(body)
             THEN [ok |-> TRUE,
                   val |-> IF signed /\ Head(t) = "-"
                           THEN 0 - DecimalValue(body) ELSE DecimalValue(body)]
             ELSE [ok |-> FALSE, val |-> 0]

----------------------------------------------------------------------------
(* services/parsers.py                                                     *)

RemoveCommas(s) == SelectSeq(s, LAMBDA c : c # ",")

\* index of the first "eok" in s, 0 when there is none
FirstEok(s) ==
    IF \E i \in 1..Len(s) : s[i] = "eok"
    THEN CHOOSE i \in 1..Len(s) : s[i] = "eok" /\ \A j \in 1..(i - 1) : s[j] # "eok"
    ELSE 0

\* the text between the first and the second "eok" (str.split's tail[0])
AfterFirstEok(s) ==
    LET rest == SubSeq(s, FirstEok(s) + 1, Len(s))
        k == FirstEok(rest)
    IN  IF k = 0 THEN rest ELSE SubSeq(rest, 1, k - 1)

price_to_manwon(value) ==
    IF value = NoneText \/ Len(value) = 0 THEN None
    ELSE LET cleaned == RemoveCommas(Strip(value))
         IN  IF Len(cleaned) = 0 THEN None
             ELSE IF FirstEok(cleaned) # 0
             THEN LET front == SubSeq(cleaned, 1, FirstEok(cleaned) - 1)
                      rest == Strip(AfterFirstEok(cleaned))
                      eok == IF IsDigit(front) THEN DecimalValue(front) ELSE 0
                      manwon == IF IsDigit(rest) THEN DecimalValue(rest) ELSE 0
                  IN  (eok * 10000) + manwon
             ELSE IF IsDigit(cleaned) THEN DecimalValue(cleaned) ELSE None

----------------------------------------------------------------------------
(* services/ingest.py                                                      *)

\* a bucket that starts at the hour of now instead of a multiple of the width
resolve_time_bucket_from_this_hour(now_utc, window_hours) ==
    LET bucket_start == (now_utc \div 60) * 60
    IN  [bucket_start |-> bucket_start, bucket_end |-> bucket_start + (window_hours * 60)]

\* lines 13-17
resolve_time_bucket(now_utc, window_hours) ==
    LET day == now_utc \div 1440
        hour == (((now_utc % 1440) \div 60) \div window_hours) * window_hours
        bucket_start == (day * 1440) + (hour * 60)
    IN  [bucket_start |-> bucket_start, bucket_end |-> bucket_start + (window_hours * 60)]

\* line 35: the settings value only when the argument is None
ResolveReuseWindowFalsyZero(reuse_window_hours, settings_window) ==
    IF reuse_window_hours = None \/ reuse_window_hours = 0
    THEN settings_window ELSE reuse_window_hours

ResolveReuseWindow(reuse_window_hours, settings_window) ==
    IF reuse_window_hours = None THEN settings_window ELSE reuse_window_hours

\* A database session (db.py SessionLocal: autoflush off): the CrawlRun rows
\* it has flushed but not committed, and the ListingSnapshot objects added
\* to it and not yet flushed.
EmptySession == [new_runs |-> {}, new_listings |-> <<>>]

\* Session.rollback() and Session.close(): everything uncommitted is dropped
Rollback(sess) == EmptySession

\* lines 39-50: the runs the reuse query matches, as this session sees them
ReuseCandidates(visible_runs, complex_no, bucket) ==
    {r \in visible_runs :
        /\ r.complex_no = complex_no
        /\ r.status = "SUCCESS"
        /\ r.completed_at # None
        /\ r.completed_at >= bucket.bucket_start
        /\ r.completed_at < bucket.bucket_end}

\* the ordering of line 48 turned around
EarliestCompleted(candidates) ==
    {r \in candidates : \A q \in candidates : q.completed_at >= r.completed_at}

\* order_by(completed_at.desc()).limit(1): any row of greatest completed_at
LatestCompleted(candidates) ==
    {r \in candidates : \A q \in candidates : q.completed_at <= r.completed_at}

\* lines 109-124: the row built from one upstream record
NewListing(run_id, complex_no, article_no, article, t) ==
    [crawl_run_id      |-> run_id,
     complex_no        |-> complex_no,
     article_no        |-> article_no,
     trade_type_name   |-> article.tradeTypeName,
     deal_price_text   |-> article.dealOrWarrantPrc,
     rent_price_text   |-> article.rentPrc,
     deal_price_manwon |-> price_to_manwon(article.dealOrWarrantPrc),
     rent_price_manwon |-> price_to_manwon(article.rentPrc),
     observed_at       |-> None]

\* a slip that lets a later record of the same article replace the row
AddArticleLastWins(acc, article, run_id, complex_no, t) ==
    LET conv == PyInt(article.articleNo)
        row == NewListing(run_id, complex_no, conv.val, article, t)
    IN  IF article.articleNo.kind = "none" \/ ~conv.ok THEN acc
        ELSE IF conv.val \in acc.seen
        THEN [acc EXCEPT !.rows =
                 [i \in 1..Len(@) |-> IF @[i].article_no = conv.val THEN row ELSE @[i]]]
        ELSE [acc EXCEPT !.seen = @ \cup {conv.val},
                         !.rows = Append(@, row),
                         !.listing_count = @ + 1]

\* lines 97-126: one iteration of the loop over a page's records
AddArticle(acc, article, run_id, complex_no, t) ==
    LET conv == PyInt(article.articleNo)
    IN  IF article.articleNo.kind = "none" THEN acc
        ELSE IF ~conv.ok THEN acc
        ELSE IF conv.val \in acc.seen THEN acc
        ELSE [acc EXCEPT !.seen = @ \cup {conv.val},
                         !.rows = Append(@, NewListing(run_id, complex_no, conv.val, article, t)),
                         !.listing_count = @ + 1]

RECURSIVE AddArticles(_, _, _, _, _)
AddArticles(acc, article_list, run_id, complex_no, t) ==
    IF Len(article_list) = 0 THEN acc
    ELSE AddArticles(AddArticle(acc, Head(article_list), run_id, complex_no, t),
                     Tail(article_list), run_id, complex_no, t)

\* the upstream result set ends: a page past the last one holds no listings
EmptyPayload == [raises |-> FALSE, has_key |-> TRUE, articleList |-> <<>>]

UpstreamAt(upstream, p) == IF p \in DOMAIN upstream THEN upstream[p] ELSE EmptyPayload

\* payload.get("articleList", [])
ArticleListOf(payload) == IF payload.has_key THEN payload.articleList ELSE <<>>

\* a slip that treats an empty first page as an upstream failure
FetchFailsOrEmpty(upstream, p) == UpstreamAt(upstream, p).raises \/ Len(ArticleListOf(UpstreamAt(upstream, p))) = 0

\* client.fetch_complex_articles raised (RuntimeError out of _request_json)
FetchFails(upstream, p) == UpstreamAt(upstream, p).raises

\* a loop that passes over a page without listings instead of ending
RECURSIVE PageLoopPastEmptyPages(_, _, _, _, _, _, _, _)
PageLoopPastEmptyPages(acc, upstream, cur, first_page, last_page, run_id, complex_no, t) ==
    IF cur > last_page THEN acc
    ELSE LET fetched == IF cur # first_page
                        THEN [acc EXCEPT !.fetches = @ \o <<cur>>] ELSE acc
         IN  IF cur # first_page /\ FetchFails(upstream, cur)
             THEN [fetched EXCEPT !.raised = TRUE]
             ELSE IF Len(ArticleListOf(UpstreamAt(upstream, cur))) = 0
             THEN PageLoopPastEmptyPages(fetched, upstream, cur + 1, first_page, last_page,
                                         run_id, complex_no, t)
             ELSE PageLoopPastEmptyPages(
                     AddArticles([fetched EXCEPT !.pages_fetched = @ + 1],
                                 ArticleListOf(UpstreamAt(upstream, cur)), run_id, complex_no, t),
                     upstream, cur + 1, first_page, last_page, run_id, complex_no, t)

\* lines 82-126: the loop over current_page, from cur to last_page
RECURSIVE PageLoop(_, _, _, _, _, _, _, _)
PageLoop(acc, upstream, cur, first_page, last_page, run_id, complex_no, t) ==
    IF cur > last_page THEN acc
    ELSE LET fetched == IF cur # first_page
                        THEN [acc EXCEPT !.fetches = @ \o <<cur>>] ELSE acc
         IN  IF cur # first_page /\ FetchFails(upstream, cur)
             THEN [fetched EXCEPT !.raised = TRUE]
             ELSE IF Len(ArticleListOf(UpstreamAt(upstream, cur))) = 0 THEN fetched
             ELSE PageLoop(
                     AddArticles([fetched EXCEPT !.pages_fetched = @ + 1],
                                 ArticleListOf(UpstreamAt(upstream, cur)), run_id, complex_no, t),
                     upstream, cur + 1, first_page, last_page, run_id, complex_no, t)

\* uq_run_article (models.py): no two rows of one run with one article_no
ViolatesUniqueRunArticle(committed, inserted) ==
    LET all == committed \o inserted
    IN  \E i, j \in 1..Len(all) :
            /\ i < j
            /\ j > Len(committed)
            /\ all[i].crawl_run_id = all[j].crawl_run_id
            /\ all[i].article_no = all[j].article_no

NoRun == [id |-> None, complex_no |-> None, status |-> "", started_at |-> None,
          completed_at |-> None]

NoResult == [crawl_run_id |-> None, complex_no |-> None, listing_count |-> 0,
             pages_fetched |-> 0, reused |-> 0]

\* select count(ListingSnapshot.id) where crawl_run_id = run_id
CountListings(snaps, run_id) ==
    Cardinality({i \in 1..Len(snaps) : snaps[i].crawl_run_id = run_id})

\* the INSERT of pending rows: observed_at takes its server default
Flush(rows, t) == [i \in 1..Len(rows) |-> [rows[i] EXCEPT !.observed_at = t]]

\* db.commit() (line 129): every flushed run and every pending row of the
\* session becomes visible, unless uq_run_article rejects the INSERT
Commit(db, runs, rows, t) ==
    IF ViolatesUniqueRunArticle(db.listing_snapshots, rows)
    THEN [ok |-> FALSE, db |-> db]
    ELSE [ok |-> TRUE,
          db |-> [db EXCEPT !.crawl_runs = @ \cup runs,
                            !.listing_snapshots = @ \o Flush(rows, t)]]

\* line 128: crawl_run.completed_at = datetime.now(timezone.utc)
CompleteRun(crawl_run, t) == [crawl_run EXCEPT !.completed_at = t]

\* lines 20-137.  db = [crawl_runs, listing_snapshots, next_run_id] is the
\* committed database, sess the caller's session, existing_run the row the
\* reuse query returned (NoRun for none), upstream the response of the
\* listing source to each page request, t the time of the call.
ingest_complex_snapshot(db, sess, complex_no, page, max_pages, window, existing_run, upstream, t) ==
    IF page < 1 \/ max_pages < 1
    THEN [raised |-> "ValueError", result |-> NoResult, db |-> db, sess |-> sess,
          fetches |-> <<>>, created |-> None]
    ELSE IF window > 0 /\ existing_run # NoRun
    THEN [raised |-> "",
          result |-> [crawl_run_id  |-> existing_run.id,
                      complex_no    |-> complex_no,
                      listing_count |-> CountListings(db.listing_snapshots, existing_run.id),
                      pages_fetched |-> 0,
                      reused        |-> 1],
          db |-> db, sess |-> sess, fetches |-> <<>>, created |-> None]
    ELSE IF FetchFails(upstream, page)
    THEN [raised |-> "RuntimeError", result |-> NoResult, db |-> db, sess |-> sess,
          fetches |-> <<page>>, created |-> None]
    ELSE LET run_id == db.next_run_id
             crawl_run == [id |-> run_id, complex_no |-> complex_no,
                           status |-> "SUCCESS", started_at |-> t,
                           completed_at |-> None]
             flushed == [db EXCEPT !.next_run_id = @ + 1]
             acc == PageLoop([rows |-> <<>>, seen |-> {}, listing_count |-> 0,
                              pages_fetched |-> 0, fetches |-> <<page>>,
                              raised |-> FALSE],
                             upstream, page, page, page + max_pages - 1,
                             run_id, complex_no, t)
             done == Commit(flushed,
                            sess.new_runs \cup {CompleteRun(crawl_run, t)},
                            sess.new_listings \o acc.rows, t)
         IN  IF acc.raised
             THEN [raised |-> "RuntimeError", result |-> NoResult, db |-> flushed,
                   sess |-> [new_runs |-> sess.new_runs \cup {crawl_run},
                             new_listings |-> sess.new_listings \o acc.rows],
                   fetches |-> acc.fetches, created |-> run_id]
             ELSE IF ~done.ok
             THEN [raised |-> "IntegrityError", result |-> NoResult, db |-> flushed,
                   sess |-> EmptySession, fetches |-> acc.fetches, created |-> run_id]
             ELSE [raised |-> "",
                   result |-> [crawl_run_id  |-> run_id,
                               complex_no    |-> complex_no,
                               listing_count |-> acc.listing_count,
                               pages_fetched |-> acc.pages_fetched,
                               reused        |-> 0],
                   db |-> done.db, sess |-> EmptySession,
                   fetches |-> acc.fetches, created |-> run_id]

\* lines 36-51: what the reuse query can return to this session
ExistingRunChoices(db, sess, complex_no, window, t) ==
    IF window > 0
       /\ ReuseCandidates(db.crawl_runs \cup sess.new_runs, complex_no,
                          resolve_time_bucket(t, window)) # {}
    THEN LatestCompleted(ReuseCandidates(db.crawl_runs \cup sess.new_runs, complex_no,
                                         resolve_time_bucket(t, window)))
    ELSE {NoRun}

----------------------------------------------------------------------------
(* The ingestion state machine: the committed database, the clock, and    *)
(* the two handlers that keep one session over several ingest calls.      *)

VARIABLES
    now,                \* the wall clock, minutes since 00:00 UTC of day 0
    settings_window,    \* settings.crawler_reuse_window_hours
    crawl_runs,         \* committed rows of crawl_runs
    listing_snapshots,  \* committed rows of listing_snapshots, in INSERT order
    next_run_id,        \* the sequence behind crawl_runs.id
    watch_ingest,       \* the running me_ingest_watch_complexes request
    scheduler,          \* the running CrawlScheduler._run_if_due batch
    last_call,          \* history: the ingest_complex_snapshot call of the step just taken
    failed_in_scheduler \* history: ids of runs created by scheduler calls that raised

ingestVars == <<now, settings_window, crawl_runs, listing_snapshots, next_run_id,
                watch_ingest, scheduler, last_call, failed_in_scheduler>>

VARIABLES
    price_in,           \* the arguments of to_effective_price_manwon
    price_out,          \* its result
    bargain_query,      \* the arguments of detect_bargains
    bargain_result      \* its result

priceVars == <<price_in, price_out>>
bargainVars == <<bargain_query, bargain_result>>

VARIABLES
    alert_log,          \* committed rows of alert_dispatch_logs
    dispatchers,        \* the running bargain dispatches, by entry point
    delivered,          \* history: bag of (channel, dedupe key) of the items sent
    send_failed,        \* history: (channel, dedupe key) whose latest send failed
    last_dispatch       \* history: the dispatch of the step just taken

alertVars == <<alert_log, dispatchers, delivered, send_failed, last_dispatch>>

VARIABLES
    executed_keys,      \* CrawlScheduler._executed_keys
    scheduler_config,   \* the SchedulerConfig row with id 1, or NoRow
    watches,            \* rows of user_watch_complexes
    users,              \* rows of users, by id
    notification_settings, \* rows of user_notification_settings, by user id
    batch,              \* the batch of the running _run_if_due call
    fired,              \* history: the batches started, in order
    last_tick           \* history: the _run_if_due call whose test was just made

tickVars == <<executed_keys, scheduler_config, watches, users, notification_settings,
              batch, fired, last_tick>>

VARIABLES
    registration_attempts,  \* main.py REGISTER_ATTEMPTS
    register_threads,       \* the auth_register requests being handled, by worker thread
    register_log,           \* history: the registration attempts answered, in order
    auth_refresh_tokens,    \* committed rows of auth_refresh_tokens, with the row locks held
    api_call                \* history: the request of the step just taken

apiVars == <<registration_attempts, register_threads, register_log, auth_refresh_tokens,
            api_call>>

vars == <<now, settings_window, crawl_runs, listing_snapshots, next_run_id,
          watch_ingest, scheduler, last_call, failed_in_scheduler,
          price_in, price_out, bargain_query, bargain_result,
          alert_log, dispatchers, delivered, send_failed, last_dispatch,
          executed_keys, scheduler_config, watches, users, notification_settings,
          batch, fired, last_tick,
          registration_attempts, register_threads, register_log, auth_refresh_tokens,
          api_call>>

\* ---- bounds of the model
MaxRunId == 2
MaxPages == 2

\* ---- program constants
SchedulerMaxPages == 10

Complexes == {1, 2}

\* 13:05, 14:01, 18:01 of day 0
Instants == {785, 841, 1081}

ReuseBucketHours == {0, 6, 12, 24}

SaleArticle(no, price) ==
    [articleNo |-> no, tradeTypeName |-> <<"mae", "mae">>,
     dealOrWarrantPrc |-> price, rentPrc |-> NoneText]

Failure == [raises |-> TRUE, has_key |-> FALSE, articleList |-> <<>>]
Malformed == [raises |-> FALSE, has_key |-> FALSE, articleList |-> <<>>]
Listed(articles) == [raises |-> FALSE, has_key |-> TRUE, articleList |-> articles]

\* what the listing source may answer to one page request
PageOutcomes ==
    {Failure, EmptyPayload,
     Listed(<<SaleArticle(StrNo(<<"7">>), <<"5", "eok">>)>>)}

\* the answers to the page requests of one call, page 1 first: every answer
\* but the last holds listings (no page is requested after a failure or an
\* empty page), and a page past the last answer is empty
Upstreams ==
    {u \in UNION {[1..k -> PageOutcomes] : k \in 1..MaxPages} :
        \A i \in 1..(Len(u) - 1) : ~u[i].raises /\ Len(ArticleListOf(u[i])) > 0}

\* sorted(by_complex_name.keys()) and the scheduler's ordered distinct
\* watch list: the non-empty ascending lists of complexes
RECURSIVE Ascending(_)
Ascending(S) ==
    IF S = {} THEN <<>>
    ELSE LET m == CHOOSE x \in S : \A y \in S : x <= y
         IN  <<m>> \o Ascending(S \ {m})

ComplexLists == {Ascending(S) : S \in (SUBSET Complexes) \ {{}}}

\* a handler at rest; when active: its session, the complexes still to
\* ingest, its arguments, and (history) the ids of the runs created by
\* those of its calls that raised
Idle == [active |-> FALSE, sess |-> EmptySession, todo |-> <<>>,
         max_pages |-> 0, reuse_window_hours |-> 0, failed |-> {}]

NoCall == [complex_no |-> None, page |-> 0, max_pages |-> 0,
           reuse_window_hours |-> None, raised |-> "", result |-> NoResult,
           fetches |-> <<>>, answers |-> <<>>, created |-> None,
           runs_before |-> 0, rows_before |-> 0, next_run_id_before |-> 0]

Database == [crawl_runs |-> crawl_runs, listing_snapshots |-> listing_snapshots,
             next_run_id |-> next_run_id]

\* the history of one call: its arguments, the pages it requested and the
\* answers it got, its outcome, and the size of the database before it
Recorded(c, page, max_pages, reuse_window_hours, upstream, out) ==
    [complex_no |-> c, page |-> page, max_pages |-> max_pages,
     reuse_window_hours |-> reuse_window_hours, raised |-> out.raised,
     result |-> out.result, fetches |-> out.fetches,
     answers |-> [i \in 1..Len(out.fetches) |-> UpstreamAt(upstream, out.fetches[i])],
     created |-> out.created,
     runs_before |-> Cardinality(crawl_runs),
     rows_before |-> Len(listing_snapshots),
     next_run_id_before |-> next_run_id]

StoreDatabase(db) ==
    /\ crawl_runs' = db.crawl_runs
    /\ listing_snapshots' = db.listing_snapshots
    /\ next_run_id' = db.next_run_id

IngestInit ==
    /\ now = 785
    /\ settings_window = 6
    /\ crawl_runs = {}
    /\ listing_snapshots = <<>>
    /\ next_run_id = 1
    /\ watch_ingest = Idle
    /\ scheduler = Idle
    /\ last_call = NoCall
    /\ failed_in_scheduler = {}

\* time passes
Tick ==
    /\ \E t \in Instants : t > now /\ now' = t
    /\ UNCHANGED <<settings_window, crawl_runs, listing_snapshots, next_run_id,
                   watch_ingest, scheduler, failed_in_scheduler>>
    /\ last_call = NoCall
    /\ UNCHANGED last_call

\* main.py crawler_ingest: one call on a session of its own, which get_db
\* closes whether the call returns or raises
crawler_ingest ==
    /\ ~watch_ingest.active
    /\ ~scheduler.active
    /\ last_call = NoCall
    /\ \E c \in Complexes, max_pages \in 1..MaxPages, force \in BOOLEAN,
          upstream \in Upstreams :
          LET reuse_window_hours == IF force THEN 0 ELSE settings_window
              window == ResolveReuseWindow(reuse_window_hours, settings_window)
          IN  \E existing \in ExistingRunChoices(Database, EmptySession, c, window, now) :
                LET out == ingest_complex_snapshot(Database, EmptySession, c, 1,
                               max_pages, window, existing, upstream, now)
                IN  /\ out.db.next_run_id <= MaxRunId + 1
                    /\ StoreDatabase(out.db)
                    /\ last_call' = Recorded(c, 1, max_pages, reuse_window_hours,
                                             upstream, out)
    /\ UNCHANGED <<now, settings_window, watch_ingest, scheduler, failed_in_scheduler>>

\* main.py me_ingest_watch_complexes up to its loop: the user's enabled
\* watches, in ascending order of complex number
watch_ingest_begin ==
    /\ ~watch_ingest.active
    /\ ~scheduler.active
    /\ \E todo \in ComplexLists, max_pages \in 1..MaxPages, force \in BOOLEAN :
          watch_ingest' = [active |-> TRUE, sess |-> EmptySession, todo |-> todo,
                           max_pages |-> max_pages,
                           reuse_window_hours |-> IF force THEN 0 ELSE settings_window,
                           failed |-> {}]
    /\ UNCHANGED <<now, settings_window, crawl_runs, listing_snapshots, next_run_id,
                   scheduler, failed_in_scheduler>>
    /\ last_call = NoCall
    /\ UNCHANGED last_call

\* one iteration of its loop (lines 1300-1332): a RuntimeError is recorded
\* in the response and the loop goes on with the same session; any other
\* exception leaves the handler, and get_db closes the session
watch_ingest_step ==
    /\ watch_ingest.active
    /\ watch_ingest.todo # <<>>
    /\ last_call = NoCall
    /\ \E upstream \in Upstreams :
          LET c == Head(watch_ingest.todo)
              window == ResolveReuseWindow(watch_ingest.reuse_window_hours,
                                           settings_window)
          IN  \E existing \in ExistingRunChoices(Database, watch_ingest.sess, c,
                                                 window, now) :
                LET out == ingest_complex_snapshot(Database, watch_ingest.sess, c, 1,
                               watch_ingest.max_pages, window, existing, upstream, now)
                IN  /\ out.db.next_run_id <= MaxRunId + 1
                    /\ StoreDatabase(out.db)
                    /\ last_call' = Recorded(c, 1, watch_ingest.max_pages,
                                             watch_ingest.reuse_window_hours,
                                             upstream, out)
                    /\ watch_ingest' =
                          IF out.raised \in {"", "RuntimeError"}
                          THEN [watch_ingest EXCEPT
                                   !.sess = out.sess,
                                   !.todo = Tail(@),
                                   !.failed = IF out.raised # "" /\ out.created # None
                                              THEN @ \cup {out.created} ELSE @]
                          ELSE Idle
    /\ UNCHANGED <<now, settings_window, scheduler, failed_in_scheduler>>

\* the handler returns and get_db closes the session
watch_ingest_return ==
    /\ watch_ingest.active
    /\ watch_ingest.todo = <<>>
    /\ watch_ingest' = Idle
    /\ UNCHANGED <<now, settings_window, crawl_runs, listing_snapshots, next_run_id,
                   scheduler, failed_in_scheduler>>
    /\ last_call = NoCall
    /\ UNCHANGED last_call

\* scheduler.py _run_if_due, lines 113-152: a due tick opens a session and
\* reads the complexes to ingest and the reuse bucket width
run_if_due_begin ==
    /\ ~scheduler.active
    /\ ~watch_ingest.active
    /\ \E todo \in ComplexLists, reuse_bucket_hours \in ReuseBucketHours :
          scheduler' = [active |-> TRUE, sess |-> EmptySession, todo |-> todo,
                        max_pages |-> SchedulerMaxPages,
                        reuse_window_hours |-> reuse_bucket_hours,
                        failed |-> {}]
    /\ UNCHANGED <<now, settings_window, crawl_runs, listing_snapshots, next_run_id,
                   watch_ingest, failed_in_scheduler>>
    /\ last_call = NoCall
    /\ UNCHANGED last_call

\* the handler of line 170 without its rollback
AfterSchedulerExceptionKeepSession(sess) == sess

\* lines 170-172: except Exception: db.rollback()
AfterSchedulerException(sess) == Rollback(sess)

\* lines 154-172: one iteration of the loop over complex_nos
run_if_due_step ==
    /\ scheduler.active
    /\ scheduler.todo # <<>>
    /\ last_call = NoCall
    /\ \E upstream \in Upstreams :
          LET c == Head(scheduler.todo)
              window == ResolveReuseWindow(scheduler.reuse_window_hours,
                                           settings_window)
          IN  \E existing \in ExistingRunChoices(Database, scheduler.sess, c,
                                                 window, now) :
                LET out == ingest_complex_snapshot(Database, scheduler.sess, c, 1,
                               scheduler.max_pages, window, existing, upstream, now)
                    raised_with_run == out.raised # "" /\ out.created # None
                IN  /\ out.db.next_run_id <= MaxRunId + 1
                    /\ StoreDatabase(out.db)
                    /\ last_call' = Recorded(c, 1, scheduler.max_pages,
                                             scheduler.reuse_window_hours,
                                             upstream, out)
                    /\ scheduler' =
                          [scheduler EXCEPT
                              !.sess = IF out.raised = "" THEN out.sess
                                       ELSE AfterSchedulerException(out.sess),
                              !.todo = Tail(@),
                              !.failed = IF raised_with_run
                                         THEN @ \cup {out.created} ELSE @]
                    /\ failed_in_scheduler' =
                          IF raised_with_run
                          THEN failed_in_scheduler \cup {out.created}
                          ELSE failed_in_scheduler
    /\ UNCHANGED <<now, settings_window, watch_ingest>>

\* lines 173-175: return poll_seconds, finally db.close()
run_if_due_end ==
    /\ scheduler.active
    /\ scheduler.todo = <<>>
    /\ scheduler' = Idle
    /\ UNCHANGED <<now, settings_window, crawl_runs, listing_snapshots, next_run_id,
                   watch_ingest, failed_in_scheduler>>
    /\ last_call = NoCall
    /\ UNCHANGED last_call

\* lines 58-64 and 131-137: the caller has taken the call's return value (or
\* its exception); the history of the call is dropped
call_returned ==
    /\ last_call # NoCall
    /\ last_call' = NoCall
    /\ UNCHANGED <<now, settings_window, crawl_runs, listing_snapshots, next_run_id,
                   watch_ingest, scheduler, failed_in_scheduler>>

\* the variables of the other parts of the model, at rest
NotComputed == [computed |-> FALSE]

PriceIdle == price_in = NotComputed /\ price_out = NotComputed
BargainIdle == bargain_query = NotComputed /\ bargain_result = NotComputed

\* no dispatch running, none made yet
NoDispatcher == [pc |-> "idle"]
NoDispatch == [entry |-> "none"]

AlertIdle ==
    /\ alert_log = {}
    /\ dispatchers = [entry \in {"scheduler", "manual"} |-> NoDispatcher]
    /\ delivered = EmptyBag
    /\ send_failed = {}
    /\ last_dispatch = NoDispatch

\* the scheduler has fired nothing, no config row, no watch
NoRow == [present |-> FALSE]
NoBatch == [pc |-> "idle"]
NoTick == [made |-> FALSE]

TickIdle ==
    /\ executed_keys = {}
    /\ scheduler_config = NoRow
    /\ watches = {}
    /\ users = <<>>
    /\ notification_settings = <<>>
    /\ batch = NoBatch
    /\ fired = <<>>
    /\ last_tick = NoTick

\* no registration attempted, no request made
NoRequest == [op |-> "none"]

ApiIdle ==
    /\ registration_attempts = <<>>
    /\ register_threads = <<>>
    /\ register_log = <<>>
    /\ auth_refresh_tokens = <<>>
    /\ api_call = NoRequest

ServiceIdle == TickIdle /\ ApiIdle

Init ==
    /\ IngestInit
    /\ PriceIdle
    /\ BargainIdle
    /\ AlertIdle
    /\ ServiceIdle

Next ==
    \/ Tick /\ UNCHANGED <<priceVars, bargainVars, alertVars, tickVars, apiVars>>
    \/ crawler_ingest /\ UNCHANGED <<priceVars, bargainVars, alertVars, tickVars, apiVars>>
    \/ watch_ingest_begin /\ UNCHANGED <<priceVars, bargainVars, alertVars, tickVars, apiVars>>
    \/ watch_ingest_step /\ UNCHANGED <<priceVars, bargainVars, alertVars, tickVars, apiVars>>
    \/ watch_ingest_return /\ UNCHANGED <<priceVars, bargainVars, alertVars, tickVars, apiVars>>
    \/ run_if_due_begin /\ UNCHANGED <<priceVars, bargainVars, alertVars, tickVars, apiVars>>
    \/ run_if_due_step /\ UNCHANGED <<priceVars, bargainVars, alertVars, tickVars, apiVars>>
    \/ run_if_due_end /\ UNCHANGED <<priceVars, bargainVars, alertVars, tickVars, apiVars>>
    \/ call_returned /\ UNCHANGED <<priceVars, bargainVars, alertVars, tickVars, apiVars>>

Spec == Init /\ [][Next]_vars

----------------------------------------------------------------------------
(* The reuse policy on the minute: crawler_ingest alone, on a clock that   *)
(* stops at 13:05, 13:50, 13:59, 14:01, 18:01 of day 0 and 00:30 of day 1. *)

ReuseInstants == {785, 830, 839, 841, 1081, 1470}

TickMinutes ==
    /\ last_call = NoCall
    /\ \E t \in ReuseInstants : t > now /\ now' = t
    /\ UNCHANGED <<settings_window, crawl_runs, listing_snapshots, next_run_id,
                   watch_ingest, scheduler, last_call, failed_in_scheduler>>

NextReuse ==
    \/ TickMinutes /\ UNCHANGED <<priceVars, bargainVars, alertVars, tickVars, apiVars>>
    \/ crawler_ingest /\ UNCHANGED <<priceVars, bargainVars, alertVars, tickVars, apiVars>>
    \/ call_returned /\ UNCHANGED <<priceVars, bargainVars, alertVars, tickVars, apiVars>>

SpecReuse == Init /\ [][NextReuse]_vars

----------------------------------------------------------------------------
(* One fresh ingest call on an empty database, over every answer of the    *)
(* listing source to two page requests with at most MaxPageLen records a   *)
(* page.  The records give article 7 as a number, as a text and as a       *)
(* padded text, each with a price of its own.                              *)

MaxPageLen == 2

RichArticles ==
    {SaleArticle(IntNo(7), <<"5", "eok">>),
     SaleArticle(StrNo(<<"7">>), <<"4", "eok">>),
     SaleArticle(StrNo(<<"8">>), <<"3", "eok">>),
     SaleArticle(MissingNo, <<"2", "eok">>),
     SaleArticle(StrNo(<<"7", "x">>), <<"1", "eok">>)}

RichOutcomes ==
    {Failure, Malformed}
        \cup {Listed(p) : p \in UNION {[1..k -> RichArticles] : k \in 0..MaxPageLen}}

RichUpstreams == [1..2 -> RichOutcomes]

ingest_once ==
    /\ next_run_id = 1
    /\ last_call = NoCall
    /\ \E c \in Complexes, max_pages \in 1..2, upstream \in RichUpstreams :
          LET out == ingest_complex_snapshot(Database, EmptySession, c, 1, max_pages,
                         ResolveReuseWindow(0, settings_window), NoRun, upstream, now)
          IN  /\ StoreDatabase(out.db)
              /\ last_call' = Recorded(c, 1, max_pages, 0, upstream, out)
    /\ UNCHANGED <<now, settings_window, watch_ingest, scheduler, failed_in_scheduler>>

NextCall ==
    \/ ingest_once /\ UNCHANGED <<priceVars, bargainVars, alertVars, tickVars, apiVars>>
    \/ call_returned /\ UNCHANGED <<priceVars, bargainVars, alertVars, tickVars, apiVars>>

SpecCall == Init /\ [][NextCall]_vars

----------------------------------------------------------------------------
(* Properties of the ingestion coordinator.                                *)

Called == last_call # NoCall

RowsOfRun(run_id) ==
    {i \in 1..Len(listing_snapshots) : listing_snapshots[i].crawl_run_id = run_id}

Persisted(run_id) ==
    \/ \E r \in crawl_runs : r.id = run_id
    \/ RowsOfRun(run_id) # {}

\* the committed SUCCESS runs of the called complex that were there before
\* the call and completed inside the bucket of the time of the call
BucketRuns ==
    IF Called /\ last_call.reuse_window_hours > 0
    THEN LET bucket == resolve_time_bucket(now, last_call.reuse_window_hours)
         IN  {r \in crawl_runs :
                 /\ r.id < last_call.next_run_id_before
                 /\ r.complex_no = last_call.complex_no
                 /\ r.status = "SUCCESS"
                 /\ r.completed_at # None
                 /\ r.completed_at >= bucket.bucket_start
                 /\ r.completed_at < bucket.bucket_end}
    ELSE {}

\* C1: in every committed database state, whatever the entry points and the
\* outcomes of the calls so far, every visible CrawlRun has completed_at set:
\* a run with completed_at unset is never committed.
C1_NoPartialRunVisible ==
    \A r \in crawl_runs : r.completed_at # None

\* C2: a call in which a page fetch failed raises and has persisted nothing
\* when it raises; in the scheduler batch the session is rolled back before
\* the next complex, so no later commit of a batch ever persists the run row
\* or a listing row of a scheduler call that raised.
C2_FailedFetchPersistsNothing ==
    /\ (Called /\ \E i \in 1..Len(last_call.answers) : last_call.answers[i].raises)
          => /\ last_call.raised = "RuntimeError"
             /\ Cardinality(crawl_runs) = last_call.runs_before
             /\ Len(listing_snapshots) = last_call.rows_before
             /\ last_call.created # None => ~Persisted(last_call.created)
    /\ \A id \in failed_in_scheduler : ~Persisted(id)
    /\ scheduler.sess = EmptySession

\* C2 witness: in one scheduler batch a call has raised after creating its
\* run, and a later call of the same batch has just committed a new run.
C2_Witness ==
    /\ scheduler.active
    /\ Called
    /\ last_call.raised = ""
    /\ last_call.result.reused = 0
    /\ \E id \in scheduler.failed : id < last_call.result.crawl_run_id

\* C3: when reuse_window_hours > 0 and a SUCCESS run of the complex completed
\* inside the current bucket, the call makes no upstream request, creates no
\* run and no snapshot row, and returns the id of the run of latest
\* completed_at among them, the count of its snapshots, pages_fetched = 0 and
\* reused = 1.
C3_ReuseReturnsLatestRunWithoutFetching ==
    BucketRuns # {} =>
        /\ last_call.raised = ""
        /\ last_call.result.reused = 1
        /\ last_call.result.pages_fetched = 0
        /\ last_call.fetches = <<>>
        /\ next_run_id = last_call.next_run_id_before
        /\ Cardinality(crawl_runs) = last_call.runs_before
        /\ Len(listing_snapshots) = last_call.rows_before
        /\ \E r \in BucketRuns :
              /\ r.id = last_call.result.crawl_run_id
              /\ \A q \in BucketRuns : q.completed_at <= r.completed_at
        /\ last_call.result.listing_count
              = Cardinality(RowsOfRun(last_call.result.crawl_run_id))
        /\ last_call.result.complex_no = last_call.complex_no

\* C3 witness: a reusing call that had two runs of different completion
\* times to choose from, the returned one holding a snapshot.
C3_Witness ==
    /\ \E r, q \in BucketRuns : r.completed_at < q.completed_at
    /\ last_call.result.reused = 1
    /\ last_call.result.listing_count > 0

\* C4: with reuse_window_hours = 0 a call never answers reused = 1: it always
\* requests the first page upstream and, when it succeeds, has committed a
\* new run of the complex, however recently another run completed.
C4_ZeroWindowAlwaysFetches ==
    (Called /\ last_call.reuse_window_hours = 0) =>
        /\ last_call.result.reused = 0
        /\ Len(last_call.fetches) >= 1
        /\ last_call.fetches[1] = last_call.page
        /\ last_call.raised = "" =>
              /\ last_call.result.crawl_run_id = last_call.next_run_id_before
              /\ \E r \in crawl_runs :
                    /\ r.id = last_call.result.crawl_run_id
                    /\ r.complex_no = last_call.complex_no
                    /\ r.status = "SUCCESS"
                    /\ r.completed_at = now
              /\ Cardinality(crawl_runs) > last_call.runs_before

\* C4 witness: a forced call that succeeded although a SUCCESS run of the
\* same complex had completed at this very instant.
C4_Witness ==
    /\ Called
    /\ last_call.reuse_window_hours = 0
    /\ last_call.raised = ""
    /\ \E r \in crawl_runs :
          /\ r.id < last_call.next_run_id_before
          /\ r.complex_no = last_call.complex_no
          /\ r.status = "SUCCESS"
          /\ r.completed_at = now

\* a SUCCESS run of the called complex, there before the call, completed at t
PriorRunAt(t) ==
    \E r \in crawl_runs :
        /\ r.id < last_call.next_run_id_before
        /\ r.complex_no = last_call.complex_no
        /\ r.status = "SUCCESS"
        /\ r.completed_at = t

PriorRunBetween(from, until) ==
    \E t \in from..(until - 1) : PriorRunAt(t)

Reused == last_call.raised = "" /\ last_call.result.reused = 1 /\ last_call.fetches = <<>>

FetchedFresh == Len(last_call.fetches) >= 1 /\ last_call.result.reused = 0

\* C5 as stated: with reuse_window_hours = 6, after a run completed at 13:59 a
\* request at 14:01 of the same day fetches afresh, and a request at 13:50
\* after a run completed earlier in the 13:00 hour reuses it without fetching.
C5_FreshFetchAfterTheHour ==
    (Called /\ last_call.reuse_window_hours = 6) =>
        /\ (now = 841 /\ PriorRunAt(839)) => FetchedFresh
        /\ (now = 830 /\ PriorRunBetween(780, 830)) => Reused

\* C5 amended: with reuse_window_hours = 6, after a run completed at 13:59 a
\* request at 14:01 of the same day reuses that run without fetching (both
\* lie in the bucket 12:00-18:00); a request at 18:01 after runs that all
\* completed before 18:00 fetches afresh; a request at 13:50 after a run
\* completed earlier in the 13:00 hour reuses it without fetching.
C5_FreshFetchAfterTheBucket ==
    (Called /\ last_call.reuse_window_hours = 6) =>
        /\ (now = 841 /\ PriorRunAt(839)) =>
              /\ Reused
              /\ \E r \in crawl_runs :
                    /\ r.id = last_call.result.crawl_run_id
                    /\ r.id < last_call.next_run_id_before
                    /\ r.completed_at \in 839..841
        /\ (now = 1081 /\ PriorRunAt(839) /\ ~PriorRunBetween(1080, 1082)) => FetchedFresh
        /\ (now = 830 /\ PriorRunBetween(780, 830)) => Reused

\* C5 witness: a call at 14:01 with window 6 after a run completed at 13:59.
C5_Witness ==
    /\ Called
    /\ last_call.reuse_window_hours = 6
    /\ now = 841
    /\ PriorRunAt(839)

\* the records of the pages the call processed, in the order it read them
RECURSIVE RecordsOf(_)
RecordsOf(answers) ==
    IF Len(answers) = 0 THEN <<>>
    ELSE ArticleListOf(Head(answers)) \o RecordsOf(Tail(answers))

HasArticleNo(record) == PyInt(record.articleNo).ok

FirstOccurrence(records, k) ==
    /\ HasArticleNo(records[k])
    /\ \A j \in 1..(k - 1) :
          ~(HasArticleNo(records[j])
            /\ PyInt(records[j].articleNo).val = PyInt(records[k].articleNo).val)

FreshSuccess == Called /\ last_call.raised = "" /\ last_call.result.reused = 0

\* C6: after a successful call no two snapshots of the created run have the
\* same article id, over all pages of the call: every article id that occurs
\* in the payloads has exactly one row, which holds the values of its first
\* occurrence; records with a missing or non-integer article id have no row;
\* listing_count is the number of rows persisted.
C6_OneRowPerArticleFirstWins ==
    FreshSuccess =>
        LET records == RecordsOf(last_call.answers)
            rows == RowsOfRun(last_call.result.crawl_run_id)
        IN  /\ \A i, j \in rows :
                  i # j => listing_snapshots[i].article_no # listing_snapshots[j].article_no
            /\ \A k \in 1..Len(records) :
                  HasArticleNo(records[k]) =>
                      \E i \in rows :
                          listing_snapshots[i].article_no = PyInt(records[k].articleNo).val
            /\ \A i \in rows :
                  \E k \in 1..Len(records) :
                      /\ FirstOccurrence(records, k)
                      /\ listing_snapshots[i].article_no = PyInt(records[k].articleNo).val
                      /\ listing_snapshots[i].deal_price_text = records[k].dealOrWarrantPrc
                      /\ listing_snapshots[i].deal_price_manwon
                            = price_to_manwon(records[k].dealOrWarrantPrc)
                      /\ listing_snapshots[i].crawl_run_id = last_call.result.crawl_run_id
                      /\ listing_snapshots[i].complex_no = last_call.complex_no
            /\ last_call.result.listing_count = Cardinality(rows)

\* C6 witness: a successful call over two pages in which article 7 occurred
\* on both pages with different prices and a record without a usable article
\* id occurred too.
C6_Witness ==
    /\ FreshSuccess
    /\ last_call.result.pages_fetched = 2
    /\ \E k \in 1..Len(ArticleListOf(last_call.answers[1])) :
       \E m \in 1..Len(ArticleListOf(last_call.answers[2])) :
          LET a == ArticleListOf(last_call.answers[1])[k]
              b == ArticleListOf(last_call.answers[2])[m]
          IN  /\ HasArticleNo(a) /\ HasArticleNo(b)
              /\ PyInt(a.articleNo).val = PyInt(b.articleNo).val
              /\ a.dealOrWarrantPrc # b.dealOrWarrantPrc
    /\ \E k \in 1..Len(RecordsOf(last_call.answers)) :
          ~HasArticleNo(RecordsOf(last_call.answers)[k])

NoListings(answer) == ~answer.raises /\ Len(ArticleListOf(answer)) = 0

RunCommitted ==
    \E r \in crawl_runs :
        /\ r.id = last_call.result.crawl_run_id
        /\ r.complex_no = last_call.complex_no
        /\ r.completed_at = now

\* C7 as stated: when the answer to the first page holds no listings (empty
\* or malformed) the call fails and no run is persisted; an empty answer to a
\* later page is not fatal.
C7_EmptyFirstPageFails ==
    Called =>
        /\ NoListings(last_call.answers[1]) => (last_call.raised # "" /\ crawl_runs = {})
        /\ (Len(last_call.answers) >= 2 /\ NoListings(last_call.answers[Len(last_call.answers)]))
              => (last_call.raised = "" /\ RunCommitted)

\* C7 amended: when the fetch of the first page raises, the call fails and no
\* run is created or persisted; an answer without listings (empty or
\* malformed) is not fatal on any page, the first included: it ends the page
\* loop and the run is committed complete, with the rows of the pages before
\* it (none, and pages_fetched = 0, when it is the first page).
C7_EmptyPageEndsTheRun ==
    Called =>
        /\ last_call.answers[1].raises =>
              /\ last_call.raised = "RuntimeError"
              /\ last_call.created = None
              /\ next_run_id = last_call.next_run_id_before
              /\ crawl_runs = {}
              /\ listing_snapshots = <<>>
        /\ NoListings(last_call.answers[Len(last_call.answers)]) =>
              /\ last_call.raised = ""
              /\ RunCommitted
              /\ last_call.result.pages_fetched = Len(last_call.answers) - 1
              /\ last_call.result.listing_count
                    = Cardinality(RowsOfRun(last_call.result.crawl_run_id))
        /\ NoListings(last_call.answers[1]) =>
              /\ last_call.result.pages_fetched = 0
              /\ last_call.result.listing_count = 0
              /\ listing_snapshots = <<>>

\* C7 witness: a call whose first page came back without the articleList key.
C7_Witness ==
    /\ Called
    /\ last_call.answers[1] = Malformed
    /\ RunCommitted

-----------------------------------------------------------------------------
(* Price normalizer: services/analytics.py.                                 *)
(* A float is modelled as the exact fraction num/den; the conversion rate   *)
(* is given in tenths of a percent (51 is 5.1 %).                           *)

NoPrice == [none |-> TRUE, num |-> 0, den |-> 1]
Price(num, den) == [none |-> FALSE, num |-> num, den |-> den]

Wolse == <<"wol", "se">>
Maemae == <<"mae", "mae">>
Jeonse == <<"jeon", "se">>

\* trade_type_name or "" (line 32)
OrEmpty(text) == IF text = NoneText THEN <<>> ELSE text

\* a slip that rejects only negative rates
to_effective_price_manwon_negative_only(trade_type_name, deal_price_manwon, rent_price_manwon, rate10) ==
    IF rate10 < 0 THEN NoPrice
    ELSE IF Strip(OrEmpty(trade_type_name)) = Wolse
    THEN IF deal_price_manwon = None \/ rent_price_manwon = None THEN NoPrice
         ELSE Price(deal_price_manwon * rate10 + rent_price_manwon * 12 * 1000, rate10)
    ELSE IF deal_price_manwon = None THEN NoPrice
    ELSE Price(deal_price_manwon, 1)

\* lines 22-40.  deposit + rent * 12.0 / (rate / 100.0) with rate = rate10/10
\* is (deposit * rate10 + rent * 12 * 1000) / rate10
to_effective_price_manwon(trade_type_name, deal_price_manwon, rent_price_manwon, rate10) ==
    IF rate10 <= 0 THEN NoPrice
    ELSE IF Strip(OrEmpty(trade_type_name)) = Wolse
    THEN IF deal_price_manwon = None \/ rent_price_manwon = None THEN NoPrice
         ELSE Price(deal_price_manwon * rate10 + rent_price_manwon * 12 * 1000, rate10)
    ELSE IF deal_price_manwon = None THEN NoPrice
    ELSE Price(deal_price_manwon, 1)

TradeTypeNames ==
    {Wolse, <<" ">> \o Wolse \o <<" ">>, Maemae, Jeonse, NoneText, <<>>}

PriceInputs ==
    [trade_type_name : TradeTypeNames,
     deal_price_manwon : {None, 0, 30000, 98000},
     rent_price_manwon : {None, 0, 150},
     rate10 : {-10, 0, 1, 51, 300}]

PriceInit ==
    /\ IngestInit
    /\ BargainIdle
    /\ AlertIdle
    /\ ServiceIdle
    /\ price_in \in PriceInputs
    /\ price_out = NotComputed

effective_price_call ==
    /\ price_out = NotComputed
    /\ price_out' = [computed |-> TRUE,
                     value |-> to_effective_price_manwon(price_in.trade_type_name,
                                   price_in.deal_price_manwon,
                                   price_in.rent_price_manwon, price_in.rate10)]
    /\ UNCHANGED <<ingestVars, bargainVars, alertVars, tickVars, apiVars, price_in>>

NextPrice == effective_price_call

SpecPrice == PriceInit /\ [][NextPrice]_vars

\* x rounded to hundredths, in hundredths (x >= 0)
Hundredths(x) == (2 * 100 * x.num + x.den) \div (2 * x.den)

\* C8: for trade type monthly-rent the result is none when the deposit is
\* absent, when the rent is absent or when the rate is <= 0 (never a value
\* with a zero divisor); otherwise it is deposit + rent*12/(rate/100), which
\* is 65294.12 to the hundredth for deposit 30000, rent 150, rate 5.1.
C8_MonthlyRentPrice ==
    (price_out.computed /\ price_in.trade_type_name = Wolse) =>
        LET deposit == price_in.deal_price_manwon
            rent == price_in.rent_price_manwon
            rate10 == price_in.rate10
            v == price_out.value
        IN  /\ (deposit = None \/ rent = None \/ rate10 <= 0) => v = NoPrice
            /\ (deposit # None /\ rent # None /\ rate10 > 0) =>
                  /\ ~v.none
                  /\ v.den > 0
                  /\ (v.num - deposit * v.den) * rate10 = rent * 12 * 1000 * v.den
            /\ (deposit = 30000 /\ rent = 150 /\ rate10 = 51) => Hundredths(v) = 6529412

\* C8 witness: the price of deposit 30000, rent 150 at 5.1 % was computed.
C8_Witness ==
    /\ price_out.computed
    /\ price_in = [trade_type_name |-> Wolse, deal_price_manwon |-> 30000,
                   rent_price_manwon |-> 150, rate10 |-> 51]
    /\ ~price_out.value.none

\* C9: for every trade type other than monthly-rent the result is the deal
\* price itself when it is present and none when it is absent, whatever the
\* rate, a zero or negative one included.
C9_OtherTypesIgnoreTheRate ==
    (price_out.computed /\ Strip(OrEmpty(price_in.trade_type_name)) # Wolse) =>
        price_out.value = IF price_in.deal_price_manwon = None THEN NoPrice
                          ELSE Price(price_in.deal_price_manwon, 1)

-----------------------------------------------------------------------------
(* Bargain detector: detect_bargains of services/analytics.py.              *)

Abs(n) == IF n < 0 THEN 0 - n ELSE n

RECURSIVE GCD(_, _)
GCD(a, b) == IF b = 0 THEN a ELSE GCD(b, a % b)

\* the fraction num/den (den > 0) in lowest terms
Rat(num, den) ==
    LET g == GCD(Abs(num), den)
    IN  [none |-> FALSE, num |-> num \div g, den |-> den \div g]

RatLeq(a, b) == a.num * b.den <= b.num * a.den
RatSub(a, b) == Rat(a.num * b.den - b.num * a.den, a.den * b.den)
RatHalfSum(a, b) == Rat(a.num * b.den + b.num * a.den, 2 * a.den * b.den)
RatDiv(a, b) == Rat(a.num * b.den, a.den * b.num)

\* round(x, digits) for scale = 10^digits, in units of 1/scale; a tie goes
\* to the even neighbour
Round(x, scale) ==
    LET q == (x.num * scale) \div x.den
        r == x.num * scale - q * x.den
    IN  IF 2 * r > x.den \/ (2 * r = x.den /\ q % 2 = 1) THEN q + 1 ELSE q

\* str.upper() on the letters that occur in the filter texts
UpperChar(c) == IF c = "a" THEN "A" ELSE IF c = "l" THEN "L" ELSE c
Upper(s) == [i \in 1..Len(s) |-> UpperChar(s[i])]

\* lines 11-19
normalize_trade_type_name(trade_type_name) ==
    IF trade_type_name = NoneText THEN NoneText
    ELSE IF Strip(trade_type_name) = <<>> THEN NoneText
    ELSE IF Upper(Strip(trade_type_name)) = <<"A", "L", "L">> THEN NoneText
    ELSE Strip(trade_type_name)

\* the optional WHERE trade_type_name == normalized (lines 172-173, 205-206)
TradeTypeAccepted(normalized, row) ==
    normalized = NoneText \/ row.trade_type_name = normalized

\* a slip that leaves the newest stored listings of the complex out of the
\* baseline
BaselineRowsBeforeNewest(snaps, complex_no, since, normalized) ==
    SelectSeq(snaps, LAMBDA row :
        /\ row.complex_no = complex_no
        /\ row.observed_at >= since
        /\ TradeTypeAccepted(normalized, row)
        /\ \E k \in 1..Len(snaps) :
              snaps[k].complex_no = complex_no /\ snaps[k].observed_at > row.observed_at)

\* lines 164-173, 184: the rows of the baseline query
BaselineRows(snaps, complex_no, since, normalized) ==
    SelectSeq(snaps, LAMBDA row :
        /\ row.complex_no = complex_no
        /\ row.observed_at >= since
        /\ TradeTypeAccepted(normalized, row))

EffectivePriceOf(row, rate10) ==
    to_effective_price_manwon(row.trade_type_name, row.deal_price_manwon,
                              row.rent_price_manwon, rate10)

\* lines 175-187: the effective prices that are not None
BaselinePrices(rows, rate10) ==
    LET priced == SelectSeq(rows, LAMBDA row : ~EffectivePriceOf(row, rate10).none)
    IN  [i \in 1..Len(priced) |-> EffectivePriceOf(priced[i], rate10)]

MinBaselineObservations == 5

\* a slip that lets four observations through
TooFewBelowFour(baseline_prices) ==
    Len(baseline_prices) < MinBaselineObservations - 1

\* line 188
TooFewObservations(baseline_prices) ==
    Len(baseline_prices) < MinBaselineObservations

RECURSIVE SortedPrices(_)
SortedPrices(prices) ==
    IF Len(prices) = 0 THEN <<>>
    ELSE LET rest == SortedPrices(Tail(prices))
             x == Head(prices)
         IN  SelectSeq(rest, LAMBDA y : ~RatLeq(x, y)) \o <<x>>
                 \o SelectSeq(rest, LAMBDA y : RatLeq(x, y))

RECURSIVE RatSum(_)
RatSum(prices) ==
    IF Len(prices) = 0 THEN Rat(0, 1)
    ELSE LET x == Head(prices)
             rest == RatSum(Tail(prices))
         IN  Rat(x.num * rest.den + rest.num * x.den, x.den * rest.den)

\* a slip that takes the arithmetic mean as the baseline
Mean(prices) ==
    LET total == RatSum(prices)
    IN  Rat(total.num, total.den * Len(prices))

\* statistics.median (line 191): the middle value, or the mean of the two
\* middle values of an even number of them
Median(prices) ==
    LET data == SortedPrices(prices)
        n == Len(data)
        i == n \div 2
    IN  IF n % 2 = 1 THEN data[i + 1] ELSE RatHalfSum(data[i], data[i + 1])

\* a query that orders the runs by the time they completed
LatestRunByCompletion(runs, complex_no) ==
    LET mine == {r \in runs : r.complex_no = complex_no /\ r.status = "SUCCESS"}
    IN  IF mine = {} THEN {NoRun}
        ELSE {r \in mine : \A q \in mine : q.completed_at <= r.completed_at}

\* lines 193-199: the SUCCESS runs of the complex that ORDER BY started_at
\* DESC LIMIT 1 may return (NoRun when there is none)
LatestRunChoices(runs, complex_no) ==
    LET mine == {r \in runs : r.complex_no = complex_no /\ r.status = "SUCCESS"}
    IN  IF mine = {} THEN {NoRun}
        ELSE {r \in mine : \A q \in mine : q.started_at <= r.started_at}

\* lines 203-209
Candidates(snaps, latest_run_id, normalized) ==
    SelectSeq(snaps, LAMBDA row :
        row.crawl_run_id = latest_run_id /\ TradeTypeAccepted(normalized, row))

\* lines 224-236: the dictionary of one flagged listing
BargainItem(item, effective_price, baseline_median, discount_rate, rate10) ==
    [article_no |-> item.article_no,
     trade_type_name |-> item.trade_type_name,
     deal_price_text |-> item.deal_price_text,
     deal_price_manwon |-> item.deal_price_manwon,
     rent_price_manwon |-> item.rent_price_manwon,
     effective_price_manwon |-> Round(effective_price, 100),
     monthly_conversion_rate_pct |-> rate10,
     baseline_median_manwon |-> baseline_median,
     discount_rate |-> Round(discount_rate, 10000),
     observed_at |-> item.observed_at]

\* a slip that asks for a discount strictly above the threshold
ExceedsThreshold(discount_rate, discount_threshold) ==
    ~RatLeq(discount_rate, discount_threshold)

\* line 222: discount_rate >= discount_threshold
MeetsThreshold(discount_rate, discount_threshold) ==
    RatLeq(discount_threshold, discount_rate)

\* lines 212-237: the loop over the candidates
RECURSIVE Flagged(_, _, _, _)
Flagged(candidates, baseline_median, discount_threshold, rate10) ==
    IF Len(candidates) = 0 THEN <<>>
    ELSE LET item == Head(candidates)
             effective_price == EffectivePriceOf(item, rate10)
             rest == Flagged(Tail(candidates), baseline_median, discount_threshold, rate10)
             discount_rate == RatDiv(RatSub(baseline_median, effective_price),
                                     baseline_median)
         IN  IF effective_price.none THEN rest
             ELSE IF MeetsThreshold(discount_rate, discount_threshold)
             THEN <<BargainItem(item, effective_price, baseline_median,
                                discount_rate, rate10)>> \o rest
             ELSE rest

\* a slip that returns the flagged listings in the order they were read
Unsorted(results) == results

\* results.sort(key=discount_rate, reverse=True) (line 239): stable
RECURSIVE SortedByDiscount(_)
SortedByDiscount(results) ==
    IF Len(results) = 0 THEN <<>>
    ELSE LET rest == SortedByDiscount(Tail(results))
             x == Head(results)
         IN  SelectSeq(rest, LAMBDA y : y.discount_rate > x.discount_rate) \o <<x>>
                 \o SelectSeq(rest, LAMBDA y : y.discount_rate <= x.discount_rate)

\* lines 153-240.  latest_run is the row the latest-run query returned, t the
\* time of the call; the division of line 221 raises ZeroDivisionError on a
\* zero median.  Candidates are read in insertion order.
detect_bargains(db, complex_no, lookback_days, discount_threshold, trade_type_name, rate10, latest_run, t) ==
    LET since == t - lookback_days * 1440
        normalized_trade_type == normalize_trade_type_name(trade_type_name)
        baseline_prices ==
            BaselinePrices(BaselineRows(db.listing_snapshots, complex_no, since,
                                        normalized_trade_type), rate10)
        baseline_median == Median(baseline_prices)
        candidates == Candidates(db.listing_snapshots, latest_run.id, normalized_trade_type)
    IN  IF TooFewObservations(baseline_prices) THEN [raised |-> "", items |-> <<>>]
        ELSE IF latest_run = NoRun THEN [raised |-> "", items |-> <<>>]
        ELSE IF baseline_median.num = 0
                /\ \E k \in 1..Len(candidates) : ~EffectivePriceOf(candidates[k], rate10).none
        THEN [raised |-> "ZeroDivisionError", items |-> <<>>]
        ELSE [raised |-> "",
              items |-> SortedByDiscount(Flagged(candidates, baseline_median,
                                                 discount_threshold, rate10))]

MaxSnapshots == 6

BargainNow == 3 * 1440

\* three committed runs: an older and the latest run of complex 1, and a run
\* of complex 2
BargainRuns ==
    {[id |-> 1, complex_no |-> 1, status |-> "SUCCESS",
      started_at |-> 1440, completed_at |-> 1440],
     [id |-> 2, complex_no |-> 1, status |-> "SUCCESS",
      started_at |-> 2880, completed_at |-> 2880],
     [id |-> 3, complex_no |-> 2, status |-> "SUCCESS",
      started_at |-> 2890, completed_at |-> 2890]}

RentArticle(no, deposit, rent) ==
    [articleNo |-> no, tradeTypeName |-> Wolse,
     dealOrWarrantPrc |-> deposit, rentPrc |-> rent]

Sale50000 == SaleArticle(MissingNo, <<"5", "eok">>)
Sale45000 == SaleArticle(MissingNo, <<"4", "eok", " ", "5", ",", "0", "0", "0">>)
SaleUnpriced == SaleArticle(MissingNo, <<"x">>)
Rent30000 == RentArticle(MissingNo, <<"3", "eok">>, <<"1", "5", "0">>)

\* the kinds of stored listing: the run it belongs to and what was listed
RowKinds ==
    << <<1, Sale50000>>, <<1, SaleUnpriced>>, <<1, Rent30000>>,
       <<2, Sale50000>>, <<2, Sale45000>>, <<2, Rent30000>>,
       <<3, Sale50000>> >>

RunById(id) == CHOOSE r \in BargainRuns : r.id = id

\* the row ingestion stores for the k-th kind as article article_no
RowOfKind(k, article_no) ==
    LET run == RunById(RowKinds[k][1])
    IN  Flush(<<NewListing(run.id, run.complex_no, article_no, RowKinds[k][2],
                           run.completed_at)>>, run.completed_at)[1]

\* the kind sequences of length <= n in ascending order
RECURSIVE KindLists(_)
KindLists(n) ==
    IF n = 0 THEN {<<>>}
    ELSE LET shorter == KindLists(n - 1)
         IN  shorter \cup
             UNION {{Append(s, k) : k \in {j \in 1..Len(RowKinds) :
                                            Len(s) = 0 \/ s[Len(s)] <= j}} :
                    s \in {x \in shorter : Len(x) = n - 1}}

SnapshotLists ==
    {[i \in 1..Len(kinds) |-> RowOfKind(kinds[i], i)] : kinds \in KindLists(MaxSnapshots)}

Threshold8Pct == Rat(2, 25)

BargainQueries ==
    [complex_no : {1},
     lookback_days : {1, 2},
     discount_threshold : {Threshold8Pct},
     trade_type_name : {NoneText, <<"a", "l", "l">>, Maemae, <<" ">> \o Wolse},
     rate10 : {0, 51}]

BargainInit ==
    /\ now = BargainNow
    /\ settings_window = 6
    /\ crawl_runs = BargainRuns
    /\ listing_snapshots \in SnapshotLists
    /\ next_run_id = 4
    /\ watch_ingest = Idle
    /\ scheduler = Idle
    /\ last_call = NoCall
    /\ failed_in_scheduler = {}
    /\ PriceIdle
    /\ BargainIdle
    /\ AlertIdle
    /\ ServiceIdle

detect_bargains_call ==
    /\ bargain_result = NotComputed
    /\ \E q \in BargainQueries :
       \E latest_run \in LatestRunChoices(crawl_runs, q.complex_no) :
          /\ bargain_query' = q
          /\ bargain_result' =
                [computed |-> TRUE,
                 out |-> detect_bargains(Database, q.complex_no, q.lookback_days,
                             q.discount_threshold, q.trade_type_name, q.rate10,
                             latest_run, now)]
    /\ UNCHANGED <<ingestVars, priceVars, alertVars, tickVars, apiVars>>

NextBargain == detect_bargains_call

SpecBargain == BargainInit /\ [][NextBargain]_vars

\* the stored listings that count as observations for the query: of the
\* complex, inside the lookback window, passing the trade-type filter, with
\* a normalizable effective price
Observations ==
    {i \in 1..Len(listing_snapshots) :
        /\ listing_snapshots[i].complex_no = bargain_query.complex_no
        /\ listing_snapshots[i].observed_at >= now - bargain_query.lookback_days * 1440
        /\ TradeTypeAccepted(normalize_trade_type_name(bargain_query.trade_type_name),
                             listing_snapshots[i])
        /\ ~EffectivePriceOf(listing_snapshots[i], bargain_query.rate10).none}

\* C10: detect_bargains returns an empty list whenever fewer than 5 listings
\* of the complex inside the lookback window, after the trade-type filter,
\* have a normalizable effective price, whatever the latest run holds; with
\* exactly 5 it goes on: when four of the five cost 50000 and the fifth, a
\* listing of the latest run, costs 45000, that listing is returned for a
\* threshold of 0.08.
C10_FewerThanFiveObservationsGiveNothing ==
    bargain_result.computed =>
        /\ Cardinality(Observations) < 5 =>
              bargain_result.out = [raised |-> "", items |-> <<>>]
        /\ Cardinality(Observations) = 5 =>
              \A i \in Observations :
                  ( /\ listing_snapshots[i].crawl_run_id = 2
                    /\ listing_snapshots[i].deal_price_manwon = 45000
                    /\ \A j \in Observations \ {i} :
                          /\ listing_snapshots[j].trade_type_name = Maemae
                          /\ listing_snapshots[j].deal_price_manwon = 50000
                    /\ bargain_query.discount_threshold = Threshold8Pct )
                  => \E k \in 1..Len(bargain_result.out.items) :
                        /\ bargain_result.out.items[k].article_no
                              = listing_snapshots[i].article_no
                        /\ bargain_result.out.items[k].discount_rate = 1000

\* C10 witness: a query over exactly five observations returned a match.
C10_Witness ==
    /\ bargain_result.computed
    /\ Cardinality(Observations) = 5
    /\ Len(bargain_result.out.items) >= 1

-----------------------------------------------------------------------------
(* Further input domains of the bargain detector.                           *)

\* the row ingestion stores for an article of a run as article article_no
RowOf(run_id, article, article_no) ==
    LET run == RunById(run_id)
    IN  Flush(<<NewListing(run.id, run.complex_no, article_no, article,
                           run.completed_at)>>, run.completed_at)[1]

\* the sequences over 1..m of length <= n in ascending order
RECURSIVE AscendingLists(_, _)
AscendingLists(m, n) ==
    IF n = 0 THEN {<<>>}
    ELSE LET shorter == AscendingLists(m, n - 1)
         IN  shorter \cup
             UNION {{Append(s, k) : k \in {j \in 1..m : Len(s) = 0 \/ s[Len(s)] <= j}} :
                    s \in {x \in shorter : Len(x) = n - 1}}

\* the databases of at most MaxSnapshots listings of the given kinds
SnapshotListsOf(kinds) ==
    {[i \in 1..Len(ks) |-> RowOf(kinds[ks[i]][1], kinds[ks[i]][2], i)] :
        ks \in AscendingLists(Len(kinds), MaxSnapshots)}

BargainInitOver(lists) ==
    /\ now = BargainNow
    /\ settings_window = 6
    /\ crawl_runs = BargainRuns
    /\ listing_snapshots \in lists
    /\ next_run_id = 4
    /\ watch_ingest = Idle
    /\ scheduler = Idle
    /\ last_call = NoCall
    /\ failed_in_scheduler = {}
    /\ PriceIdle
    /\ BargainIdle
    /\ AlertIdle
    /\ ServiceIdle

DetectBargainsOver(queries) ==
    /\ bargain_result = NotComputed
    /\ \E q \in queries :
       \E latest_run \in LatestRunChoices(crawl_runs, q.complex_no) :
          /\ bargain_query' = q
          /\ bargain_result' =
                [computed |-> TRUE,
                 out |-> detect_bargains(Database, q.complex_no, q.lookback_days,
                             q.discount_threshold, q.trade_type_name, q.rate10,
                             latest_run, now)]
    /\ UNCHANGED <<ingestVars, priceVars, alertVars, tickVars, apiVars>>

PlainSale(price) == SaleArticle(MissingNo, price)

Text100 == <<"1", "0", "0">>
Text10000 == <<"1", "eok">>

\* cheap listings and an outlier, in the older and in the latest run
OutlierKinds ==
    << <<1, PlainSale(Text100)>>, <<1, PlainSale(Text10000)>>,
       <<2, PlainSale(Text100)>>, <<2, PlainSale(Text10000)>>,
       <<2, PlainSale(<<"9", "0">>)>> >>

NoDiscount == Rat(0, 1)

OutlierQueries ==
    [complex_no : {1},
     lookback_days : {1, 2},
     discount_threshold : {NoDiscount, Threshold8Pct},
     trade_type_name : {NoneText},
     rate10 : {51}]

OutlierInit == BargainInitOver(SnapshotListsOf(OutlierKinds))

detect_bargains_outlier == DetectBargainsOver(OutlierQueries)

NextOutlier == detect_bargains_outlier

SpecOutlier == OutlierInit /\ [][NextOutlier]_vars

Answered == bargain_result.computed /\ bargain_result.out.raised = ""

ObservedPrice(i) == EffectivePriceOf(listing_snapshots[i], bargain_query.rate10)

AtMost(m) == {i \in Observations : RatLeq(ObservedPrice(i), m)}
AtLeast(m) == {i \in Observations : RatLeq(m, ObservedPrice(i))}

\* m is the median of the observations: the middle one of an odd number,
\* the mean of the two middle ones of an even number
IsMedianOfObservations(m) ==
    LET n == Cardinality(Observations)
    IN  IF n % 2 = 1
        THEN /\ \E i \in Observations : ObservedPrice(i) = m
             /\ 2 * Cardinality(AtMost(m)) > n
             /\ 2 * Cardinality(AtLeast(m)) > n
        ELSE \E i, j \in Observations :
                /\ i # j
                /\ RatLeq(ObservedPrice(i), ObservedPrice(j))
                /\ 2 * Cardinality(AtMost(ObservedPrice(i)) \ {j}) >= n
                /\ 2 * Cardinality(AtLeast(ObservedPrice(j)) \ {i}) >= n
                /\ m = RatHalfSum(ObservedPrice(i), ObservedPrice(j))

ObservationsAt(price) == {i \in Observations : ObservedPrice(i) = Rat(price, 1)}

\* the observed prices are 100, 100, 100, 100, 10000
FourCheapOneOutlier ==
    /\ Cardinality(Observations) = 5
    /\ Cardinality(ObservationsAt(100)) = 4
    /\ Cardinality(ObservationsAt(10000)) = 1

FlaggedArticles ==
    {bargain_result.out.items[k].article_no : k \in 1..Len(bargain_result.out.items)}

\* C11: the baseline every returned item reports is the median of the
\* normalizable effective prices in the lookback window, and it is the one
\* used: for the prices 100, 100, 100, 100, 10000 the reported baseline is
\* 100, a listing at 100 is returned for a threshold of 0, and none is
\* returned for a threshold of 0.08 (against the mean, 2080, it would be).
C11_BaselineIsTheMedian ==
    Answered =>
        /\ \A k \in 1..Len(bargain_result.out.items) :
              IsMedianOfObservations(bargain_result.out.items[k].baseline_median_manwon)
        /\ FourCheapOneOutlier =>
              /\ \A k \in 1..Len(bargain_result.out.items) :
                    bargain_result.out.items[k].baseline_median_manwon = Rat(100, 1)
              /\ bargain_query.discount_threshold = Threshold8Pct =>
                    bargain_result.out.items = <<>>
              /\ bargain_query.discount_threshold = NoDiscount =>
                    \A i \in Observations :
                        ( /\ listing_snapshots[i].crawl_run_id = 2
                          /\ ObservedPrice(i) = Rat(100, 1) )
                        => listing_snapshots[i].article_no \in FlaggedArticles

\* C11 witness: over the prices 100, 100, 100, 100, 10000 a listing was
\* returned with baseline 100.
C11_Witness ==
    /\ Answered
    /\ FourCheapOneOutlier
    /\ Len(bargain_result.out.items) >= 1
    /\ bargain_result.out.items[1].baseline_median_manwon = Rat(100, 1)

Text50000 == <<"5", "eok">>
Text46000 == <<"4", "eok", " ", "6", ",", "0", "0", "0">>
Text46001 == <<"4", "eok", " ", "6", ",", "0", "0", "1">>

\* listings at the baseline, at and just above 92 % of it, and one whose
\* price text parses to 0
ThresholdKinds ==
    << <<1, PlainSale(Text50000)>>, <<2, PlainSale(Text50000)>>,
       <<2, PlainSale(Text46000)>>, <<2, PlainSale(Text46001)>>,
       <<2, PlainSale(<<"0">>)>> >>

WholeDiscount == Rat(1, 1)
MoreThanWhole == Rat(3, 2)

ThresholdQueries ==
    [complex_no : {1},
     lookback_days : {1, 2},
     discount_threshold : {Threshold8Pct, WholeDiscount, MoreThanWhole},
     trade_type_name : {NoneText},
     rate10 : {51}]

ThresholdInit == BargainInitOver(SnapshotListsOf(ThresholdKinds))

detect_bargains_threshold == DetectBargainsOver(ThresholdQueries)

NextThreshold == detect_bargains_threshold

SpecThreshold == ThresholdInit /\ [][NextThreshold]_vars

\* the median of the observations (there are some)
MedianOfObservations ==
    CHOOSE m \in {ObservedPrice(i) : i \in Observations}
                 \cup {RatHalfSum(ObservedPrice(i), ObservedPrice(j)) : i, j \in Observations} :
        IsMedianOfObservations(m)

\* the SUCCESS run of the queried complex that started last
LatestRunId ==
    LET mine == {r \in crawl_runs :
                    r.complex_no = bargain_query.complex_no /\ r.status = "SUCCESS"}
    IN  (CHOOSE r \in mine : \A q \in mine : q.started_at <= r.started_at).id

\* the listings of the latest run that pass the filter and have a price
PricedCandidates ==
    {i \in 1..Len(listing_snapshots) :
        /\ listing_snapshots[i].crawl_run_id = LatestRunId
        /\ TradeTypeAccepted(normalize_trade_type_name(bargain_query.trade_type_name),
                             listing_snapshots[i])
        /\ ~ObservedPrice(i).none}

\* (m - p) / m >= threshold for a positive m, without dividing
DiscountReaches(m, p, threshold) ==
    (m.num * p.den - p.num * m.den) * threshold.den >= threshold.num * m.num * p.den

\* C12: once there are 5 observations, a listing of the latest run with a
\* normalizable price is returned if and only if
\* (baseline_median - price) / baseline_median >= threshold; with baseline
\* 50000 and threshold 0.08 a listing at 46000 is returned and one at 46001
\* is not.
C12_FlaggedIffDiscountReachesThreshold ==
    (Answered /\ Cardinality(Observations) >= 5) =>
        /\ \A i \in PricedCandidates :
              listing_snapshots[i].article_no \in FlaggedArticles
                  <=> DiscountReaches(MedianOfObservations, ObservedPrice(i),
                                      bargain_query.discount_threshold)
        /\ \A k \in 1..Len(bargain_result.out.items) :
              \E i \in PricedCandidates :
                  listing_snapshots[i].article_no = bargain_result.out.items[k].article_no
        /\ ( /\ MedianOfObservations = Rat(50000, 1)
             /\ bargain_query.discount_threshold = Threshold8Pct ) =>
              \A i \in PricedCandidates :
                  /\ ObservedPrice(i) = Rat(46000, 1) =>
                        listing_snapshots[i].article_no \in FlaggedArticles
                  /\ ObservedPrice(i) = Rat(46001, 1) =>
                        listing_snapshots[i].article_no \notin FlaggedArticles

\* C12 witness: with baseline 50000 and threshold 0.08 the latest run held a
\* listing at 46000 and one at 46001, and exactly the first was returned.
C12_Witness ==
    /\ Answered
    /\ Cardinality(Observations) >= 5
    /\ MedianOfObservations = Rat(50000, 1)
    /\ bargain_query.discount_threshold = Threshold8Pct
    /\ \E i, j \in PricedCandidates :
          /\ ObservedPrice(i) = Rat(46000, 1)
          /\ ObservedPrice(j) = Rat(46001, 1)
          /\ listing_snapshots[i].article_no \in FlaggedArticles
          /\ listing_snapshots[j].article_no \notin FlaggedArticles

\* C15: for every discount threshold >= 1 detect_bargains returns no match,
\* whatever listings are stored, one whose price parsed to 0 included.
C15_NoMatchFromThresholdOne ==
    (Answered /\ RatLeq(WholeDiscount, bargain_query.discount_threshold)) =>
        bargain_result.out.items = <<>>

\* six listings of the older run and two of the latest run of complex 1
ScenarioArticles ==
    << <<1, PlainSale(Text50000)>>,
       <<1, PlainSale(<<"5", "eok", " ", "1", ",", "0", "0", "0">>)>>,
       <<1, PlainSale(<<"4", "eok", " ", "9", ",", "0", "0", "0">>)>>,
       <<1, PlainSale(<<"5", "eok", " ", "2", ",", "0", "0", "0">>)>>,
       <<1, PlainSale(<<"4", "eok", " ", "8", ",", "0", "0", "0">>)>>,
       <<1, PlainSale(<<"3", "eok">>)>>,
       <<2, PlainSale(<<"4", "eok", " ", "5", ",", "0", "0", "0">>)>>,
       <<2, PlainSale(<<"4", "eok", " ", "9", ",", "5", "0", "0">>)>> >>

ScenarioRow(k) == RowOf(ScenarioArticles[k][1], ScenarioArticles[k][2], k)

FullScenario == [k \in 1..Len(ScenarioArticles) |-> ScenarioRow(k)]

\* the scenario with any of its listings missing
ScenarioLists ==
    {[k \in 1..Cardinality(S) |-> ScenarioRow(Ascending(S)[k])] :
        S \in SUBSET (1..Len(ScenarioArticles))}

ScenarioQueries ==
    [complex_no : {1},
     lookback_days : {1, 2},
     discount_threshold : {Threshold8Pct},
     trade_type_name : {NoneText, Maemae},
     rate10 : {51}]

ScenarioInit == BargainInitOver(ScenarioLists)

detect_bargains_scenario == DetectBargainsOver(ScenarioQueries)

NextScenario == detect_bargains_scenario

SpecScenario == ScenarioInit /\ [][NextScenario]_vars

\* the query that has all eight listings of the scenario in its window
ScenarioAsked ==
    /\ Answered
    /\ listing_snapshots = FullScenario
    /\ bargain_query.lookback_days = 2
    /\ bargain_query.discount_threshold = Threshold8Pct

\* C13 as stated: over six older listings at 50000, 51000, 49000, 52000,
\* 48000, 30000 and a latest run with listings at 45000 and 49500, threshold
\* 0.08 gives exactly the 45000 listing, with baseline 50000 and discount
\* rate 0.10.
C13_ScenarioBaseline50000 ==
    ScenarioAsked =>
        /\ FlaggedArticles = {7}
        /\ Len(bargain_result.out.items) = 1
        /\ bargain_result.out.items[1].baseline_median_manwon = Rat(50000, 1)
        /\ bargain_result.out.items[1].discount_rate = 1000

\* C13 amended: the two listings of the latest run lie in the lookback
\* window too and count toward the baseline, so the baseline is the median
\* of all eight prices, 49250; the discount rate of the 45000 listing is
\* 0.0863 (4250/49250) and that of the 49500 listing is negative; exactly the
\* 45000 listing is returned.
C13_ScenarioBaseline49250 ==
    ScenarioAsked =>
        /\ FlaggedArticles = {7}
        /\ Len(bargain_result.out.items) = 1
        /\ bargain_result.out.items[1].deal_price_manwon = 45000
        /\ bargain_result.out.items[1].baseline_median_manwon = Rat(49250, 1)
        /\ bargain_result.out.items[1].discount_rate = 863
        /\ ~DiscountReaches(Rat(49250, 1), Rat(49500, 1), NoDiscount)

\* C13 witness: the query over the whole scenario returned one listing.
C13_Witness ==
    /\ ScenarioAsked
    /\ Len(bargain_result.out.items) = 1

\* x in hundredths, rounded to the nearest hundredth
InHundredths(x) == Round(x, 100)

\* C14: the returned list is ordered by discount_rate descending, and every
\* returned item carries the baseline median, the effective price of its own
\* listing and the conversion rate of the call.
C14_SortedAndAnnotated ==
    Answered =>
        LET items == bargain_result.out.items
        IN  /\ \A k \in 1..(Len(items) - 1) :
                  items[k].discount_rate >= items[k + 1].discount_rate
            /\ \A k \in 1..Len(items) :
                  /\ items[k].baseline_median_manwon = MedianOfObservations
                  /\ items[k].monthly_conversion_rate_pct = bargain_query.rate10
                  /\ \E i \in PricedCandidates :
                        /\ listing_snapshots[i].article_no = items[k].article_no
                        /\ items[k].effective_price_manwon = InHundredths(ObservedPrice(i))
                        /\ items[k].deal_price_manwon = listing_snapshots[i].deal_price_manwon
                        /\ items[k].rent_price_manwon = listing_snapshots[i].rent_price_manwon

\* C14 witness: two listings were returned, and the one stored first has the
\* smaller discount.
C14_Witness ==
    /\ Answered
    /\ Len(bargain_result.out.items) = 2
    /\ bargain_result.out.items[1].discount_rate > bargain_result.out.items[2].discount_rate
    /\ bargain_result.out.items[1].article_no > bargain_result.out.items[2].article_no

-----------------------------------------------------------------------------
(* Alert dispatch engine: services/alerts.py, with its callers              *)
(* CrawlScheduler._dispatch_alerts_for_complex and                          *)
(* main.py me_dispatch_bargain_alerts.                                      *)

\* "{...}".format of an optional integer
Formatted(v) == IF v = None THEN "None" ELSE ToString(v)

\* a slip that keys an event on the article alone
bargain_dedupe_key_without_price(item) ==
    "bargain:" \o Formatted(item.complex_no) \o ":" \o Formatted(item.article_no)

\* lines 66-71
bargain_dedupe_key(item) ==
    "bargain:" \o Formatted(item.complex_no) \o ":" \o Formatted(item.article_no)
        \o ":" \o Formatted(item.deal_price_manwon)

\* lines 342-365.  log is what the SELECT of the session sees
filter_unsent_items(log, user_id, channel, items) ==
    LET keys == [i \in 1..Len(items) |-> bargain_dedupe_key(items[i])]
        existing_keys ==
            {r.dedupe_key : r \in {x \in log :
                /\ x.user_id = user_id
                /\ x.channel = channel
                /\ x.alert_type = "bargain"
                /\ \E i \in 1..Len(keys) : keys[i] = x.dedupe_key}}
        unsent == SelectSeq(items, LAMBDA item : bargain_dedupe_key(item) \notin existing_keys)
    IN  [items |-> unsent,
         keys |-> [i \in 1..Len(unsent) |-> bargain_dedupe_key(unsent[i])]]

\* AlertDispatchLog(...) of lines 397-403 and 421-427 (payload left out)
BargainLog(user_id, channel, dedupe_key) ==
    [user_id |-> user_id, channel |-> channel, alert_type |-> "bargain",
     dedupe_key |-> dedupe_key]

\* truthiness of an optional text
Truthy(text) == text # NoneText /\ text # <<>>

NoSend == [attempted |-> FALSE, message |-> <<>>, reason |-> "", sent |-> 0, added |-> <<>>]

\* a slip that reports the number of candidates as the number sent
ChannelStepCountingCandidates(enabled, log, user_id, channel, items, ok) ==
    LET unsent == filter_unsent_items(log, user_id, channel, items)
    IN  IF ~enabled \/ Len(unsent.items) = 0 THEN NoSend
        ELSE [attempted |-> TRUE,
              message |-> unsent.items,
              reason |-> IF ok THEN "ok" ELSE "send failed",
              sent |-> IF ok THEN Len(items) ELSE 0,
              added |-> IF ok
                        THEN [i \in 1..Len(unsent.keys) |->
                                 BargainLog(user_id, channel, unsent.keys[i])]
                        ELSE <<>>]

\* a slip that logs the items of a message although its send failed
ChannelStepLoggingFailures(enabled, log, user_id, channel, items, ok) ==
    LET unsent == filter_unsent_items(log, user_id, channel, items)
    IN  IF ~enabled \/ Len(unsent.items) = 0 THEN NoSend
        ELSE [attempted |-> TRUE,
              message |-> unsent.items,
              reason |-> IF ok THEN "ok" ELSE "send failed",
              sent |-> IF ok THEN Len(unsent.items) ELSE 0,
              added |-> [i \in 1..Len(unsent.keys) |->
                            BargainLog(user_id, channel, unsent.keys[i])]]

\* lines 384-407 for email, 409-431 for telegram: ok is what the send
\* function returned (it never raises, notifier.py lines 51-52 and 83-84)
ChannelStep(enabled, log, user_id, channel, items, ok) ==
    LET unsent == filter_unsent_items(log, user_id, channel, items)
    IN  IF ~enabled \/ Len(unsent.items) = 0 THEN NoSend
        ELSE [attempted |-> TRUE,
              message |-> unsent.items,
              reason |-> IF ok THEN "ok" ELSE "send failed",
              sent |-> IF ok THEN Len(unsent.items) ELSE 0,
              added |-> IF ok
                        THEN [i \in 1..Len(unsent.keys) |->
                                 BargainLog(user_id, channel, unsent.keys[i])]
                        ELSE <<>>]

\* a slip that forgets the test of the bargain-alert toggle
NothingToDispatchIgnoringToggle(setting, items) == Len(items) = 0

\* line 381
NothingToDispatch(setting, items) ==
    Len(items) = 0 \/ ~setting.bargain_alert_enabled

\* lines 368-433: the result dictionary, with the two channel steps
dispatch_user_bargain_alerts(log, user_id, setting, items, email_ok, telegram_ok) ==
    LET email == IF NothingToDispatch(setting, items) THEN NoSend
                 ELSE ChannelStep(setting.email_enabled /\ Truthy(setting.email_address),
                                  log, user_id, "email", items, email_ok)
        telegram == IF NothingToDispatch(setting, items) THEN NoSend
                    ELSE ChannelStep(setting.telegram_enabled /\ Truthy(setting.telegram_chat_id),
                                     log, user_id, "telegram", items, telegram_ok)
    IN  [email_sent |-> email.sent,
         telegram_sent |-> telegram.sent,
         email_reason |-> email.reason,
         telegram_reason |-> telegram.reason,
         email |-> email,
         telegram |-> telegram,
         added |-> email.added \o telegram.added]

\* a slip that compares the rows of one commit among themselves only
ViolatesUniqueDedupeWithinCommit(committed, added) ==
    \E i, j \in 1..Len(added) : i # j /\ added[i] = added[j]

\* uq_alert_dispatch_dedupe (models.py line 183) on the INSERTs of a commit
ViolatesUniqueDedupe(committed, added) ==
    \/ \E i \in 1..Len(added) : added[i] \in committed
    \/ \E i, j \in 1..Len(added) : i # j /\ added[i] = added[j]

\* db.commit() of the caller (scheduler.py line 104, main.py line 1585)
CommitLogs(committed, added) ==
    IF ViolatesUniqueDedupe(committed, added)
    THEN [ok |-> FALSE, log |-> committed]
    ELSE [ok |-> TRUE, log |-> committed \cup {added[i] : i \in 1..Len(added)}]

\* the user whose alerts are dispatched, and another one
AlertUser == 1
OtherUser == 2

Text45000 == <<"4", "eok", " ", "5", ",", "0", "0", "0">>
Text44000 == <<"4", "eok", " ", "4", ",", "0", "0", "0">>

\* row["complex_no"] = watch.complex_no (lines 57-60)
WithComplex(row, complex_no) == ("complex_no" :> complex_no) @@ row

\* the item collect_user_bargains returns for a sale listing of the latest
\* run of complex 1, against a baseline of 50000
ItemOf(article_no, price_text) ==
    LET row == RowOf(2, PlainSale(price_text), article_no)
        price == EffectivePriceOf(row, 51)
        baseline == Rat(50000, 1)
    IN  WithComplex(BargainItem(row, price, baseline,
                                RatDiv(RatSub(baseline, price), baseline), 51),
                    row.complex_no)

ItemA == ItemOf(7, Text45000)
ItemARepriced == ItemOf(7, Text44000)
ItemB == ItemOf(8, Text45000)

\* candidate lists of one collection, biggest discount first
ItemLists == {<<>>, <<ItemA>>, <<ItemARepriced>>, <<ItemA, ItemB>>, <<ItemARepriced, ItemB>>}

NoSetting ==
    [present |-> FALSE, bargain_alert_enabled |-> FALSE,
     email_enabled |-> FALSE, email_address |-> NoneText,
     telegram_enabled |-> FALSE, telegram_chat_id |-> NoneText]

\* the rows of user_notification_settings the user may have
NotificationSettings ==
    {[present |-> TRUE, bargain_alert_enabled |-> b,
      email_enabled |-> e[1], email_address |-> e[2],
      telegram_enabled |-> t[1], telegram_chat_id |-> t[2]] :
        b \in BOOLEAN,
        e \in {<<TRUE, <<"m">>>>, <<TRUE, NoneText>>, <<FALSE, <<"m">>>>},
        t \in {<<TRUE, <<"c">>>>, <<TRUE, <<>>>>, <<FALSE, <<"c">>>>}}

NotDispatched ==
    [email_sent |-> 0, telegram_sent |-> 0, email_reason |-> "", telegram_reason |-> "",
     email |-> NoSend, telegram |-> NoSend, added |-> <<>>]

\* the (channel, dedupe key) pairs of a message
PairsOf(channel, message) ==
    {[channel |-> channel, dedupe_key |-> bargain_dedupe_key(message[i])] :
        i \in 1..Len(message)}

SentPairs(out) ==
    (IF out.email.attempted /\ out.email_sent > 0
     THEN PairsOf("email", out.email.message) ELSE {})
    \cup (IF out.telegram.attempted /\ out.telegram_sent > 0
          THEN PairsOf("telegram", out.telegram.message) ELSE {})

FailedPairs(out) ==
    (IF out.email.attempted /\ out.email_sent = 0
     THEN PairsOf("email", out.email.message) ELSE {})
    \cup (IF out.telegram.attempted /\ out.telegram_sent = 0
          THEN PairsOf("telegram", out.telegram.message) ELSE {})

\* dispatch_user_bargain_alerts followed by the caller's
\* `if email_sent or telegram_sent: db.commit()`; called says whether the
\* caller got as far as the dispatch
DispatchAndCommit(entry, called, setting, items, email_ok, telegram_ok) ==
    LET out == IF called
               THEN dispatch_user_bargain_alerts(alert_log, AlertUser, setting, items,
                                                 email_ok, telegram_ok)
               ELSE NotDispatched
        committing == out.email_sent > 0 \/ out.telegram_sent > 0
        commit == CommitLogs(alert_log, out.added)
    IN  /\ alert_log' = IF committing THEN commit.log ELSE alert_log
        /\ delivered' = delivered (+) SetToBag(SentPairs(out))
        /\ send_failed' = (send_failed \ SentPairs(out)) \cup FailedPairs(out)
        /\ last_dispatch' =
              [entry |-> entry, called |-> called, setting |-> setting, items |-> items,
               out |-> out,
               raised |-> IF ~setting.present /\ entry = "manual" THEN "HTTPException"
                          ELSE IF committing /\ ~commit.ok THEN "IntegrityError" ELSE "",
               log_before |-> alert_log,
               failed_before |-> send_failed]

\* main.py lines 1555-1591 (after the billing check)
me_dispatch_bargain_alerts ==
    /\ last_dispatch = NoDispatch
    /\ \E setting \in NotificationSettings \cup {NoSetting}, items \in ItemLists,
          email_ok \in BOOLEAN, telegram_ok \in BOOLEAN :
          DispatchAndCommit("manual", setting.present, setting, items, email_ok, telegram_ok)
    /\ UNCHANGED dispatchers

\* scheduler.py lines 81-111 for one watcher of the complex
dispatch_alerts_for_complex ==
    /\ last_dispatch = NoDispatch
    /\ \E setting \in NotificationSettings \cup {NoSetting}, items \in ItemLists,
          email_ok \in BOOLEAN, telegram_ok \in BOOLEAN :
          DispatchAndCommit("scheduler", setting.present /\ setting.bargain_alert_enabled,
                            setting, items, email_ok, telegram_ok)
    /\ UNCHANGED dispatchers

dispatch_returned ==
    /\ last_dispatch # NoDispatch
    /\ last_dispatch' = NoDispatch
    /\ UNCHANGED <<alert_log, dispatchers, delivered, send_failed>>

\* the other user has been sent ItemA on both channels
DispatchInit ==
    /\ IngestInit
    /\ PriceIdle
    /\ BargainIdle
    /\ alert_log = {BargainLog(OtherUser, "email", bargain_dedupe_key(ItemA)),
                    BargainLog(OtherUser, "telegram", bargain_dedupe_key(ItemA))}
    /\ dispatchers = [entry \in {"scheduler", "manual"} |-> NoDispatcher]
    /\ delivered = EmptyBag
    /\ send_failed = {}
    /\ last_dispatch = NoDispatch
    /\ ServiceIdle

NextDispatch ==
    \/ me_dispatch_bargain_alerts /\ UNCHANGED <<ingestVars, priceVars, bargainVars, tickVars, apiVars>>
    \/ dispatch_alerts_for_complex /\ UNCHANGED <<ingestVars, priceVars, bargainVars, tickVars, apiVars>>
    \/ dispatch_returned /\ UNCHANGED <<ingestVars, priceVars, bargainVars, tickVars, apiVars>>

SpecDispatch == DispatchInit /\ [][NextDispatch]_vars

Dispatched == last_dispatch # NoDispatch /\ last_dispatch.called

LogsAdded == alert_log \ last_dispatch.log_before

\* C16: dispatch_user_bargain_alerts does nothing when the item list is
\* empty or the bargain-alert toggle is off: both sent counts are 0, no send
\* is attempted and no log record is added, whatever channels are enabled.
C16_NothingToDispatchIsNoOp ==
    (Dispatched /\ (last_dispatch.items = <<>>
                    \/ ~last_dispatch.setting.bargain_alert_enabled)) =>
        /\ last_dispatch.out.email_sent = 0
        /\ last_dispatch.out.telegram_sent = 0
        /\ ~last_dispatch.out.email.attempted
        /\ ~last_dispatch.out.telegram.attempted
        /\ last_dispatch.out.added = <<>>
        /\ LogsAdded = {}
        /\ last_dispatch.raised = ""

\* C16 witness: a dispatch with items for a user with both channels usable
\* and the toggle off.
C16_Witness ==
    /\ Dispatched
    /\ last_dispatch.items # <<>>
    /\ ~last_dispatch.setting.bargain_alert_enabled
    /\ last_dispatch.setting.email_enabled /\ Truthy(last_dispatch.setting.email_address)
    /\ last_dispatch.setting.telegram_enabled /\ Truthy(last_dispatch.setting.telegram_chat_id)

\* the name of a listing event in the log
EventKey(complex_no, article_no, deal_price_manwon) ==
    "bargain:" \o ToString(complex_no) \o ":" \o ToString(article_no)
        \o ":" \o ToString(deal_price_manwon)

\* a committed record says the event of the item went out on the channel
LoggedBefore(channel, item) ==
    \E r \in last_dispatch.log_before :
        /\ r.user_id = AlertUser
        /\ r.channel = channel
        /\ r.alert_type = "bargain"
        /\ r.dedupe_key = EventKey(item.complex_no, item.article_no, item.deal_price_manwon)

ChannelUsable(channel) ==
    IF channel = "email"
    THEN last_dispatch.setting.email_enabled /\ Truthy(last_dispatch.setting.email_address)
    ELSE last_dispatch.setting.telegram_enabled
         /\ Truthy(last_dispatch.setting.telegram_chat_id)

ChannelOut(channel) ==
    IF channel = "email" THEN last_dispatch.out.email ELSE last_dispatch.out.telegram

InMessage(channel, item) ==
    \E k \in 1..Len(ChannelOut(channel).message) : ChannelOut(channel).message[k] = item

ItemsOfDispatch == {last_dispatch.items[k] : k \in 1..Len(last_dispatch.items)}

LogsAddedOn(channel) == {r \in LogsAdded : r.channel = channel}

Active ==
    /\ Dispatched
    /\ last_dispatch.items # <<>>
    /\ last_dispatch.setting.bargain_alert_enabled

\* C17: on each enabled channel an item is in the message sent if and only
\* if no committed log record exists for (user, channel, 'bargain', complex,
\* article, deal price); a dispatch whose candidates all have such a record
\* sends 0 items on the channel and adds no record, and an article logged
\* at one deal price is sent again when it comes at another.
C17_SentIffNotLogged ==
    Active =>
        \A channel \in {"email", "telegram"} :
            /\ ChannelUsable(channel) =>
                  \A item \in ItemsOfDispatch :
                      InMessage(channel, item) <=> ~LoggedBefore(channel, item)
            /\ (\A item \in ItemsOfDispatch : LoggedBefore(channel, item)) =>
                  /\ ~ChannelOut(channel).attempted
                  /\ ChannelOut(channel).sent = 0
                  /\ LogsAddedOn(channel) = {}

\* C17 witness: article 7 was logged on email at 45000 and has now been sent
\* on email at 44000.
C17_Witness ==
    /\ Active
    /\ LoggedBefore("email", ItemA)
    /\ InMessage("email", ItemARepriced)
    /\ last_dispatch.out.email_sent >= 1

\* C18: when a channel send succeeds, exactly one log record is added for
\* each item of the message, with that item's dedupe key, and the sent count
\* reported for the channel is the number of records added for it.
C18_OneRecordPerSentItem ==
    Active =>
        \A channel \in {"email", "telegram"} :
            (ChannelOut(channel).attempted /\ ChannelOut(channel).reason = "ok") =>
                /\ last_dispatch.raised = ""
                /\ LogsAddedOn(channel) =
                      {[user_id |-> AlertUser, channel |-> channel, alert_type |-> "bargain",
                        dedupe_key |-> EventKey(item.complex_no, item.article_no,
                                                item.deal_price_manwon)] :
                          item \in {ChannelOut(channel).message[k] :
                                      k \in 1..Len(ChannelOut(channel).message)}}
                /\ Cardinality(LogsAddedOn(channel)) = Len(ChannelOut(channel).message)
                /\ ChannelOut(channel).sent = Cardinality(LogsAddedOn(channel))
                /\ Len(ChannelOut(channel).added) = ChannelOut(channel).sent

\* C18 witness: a message of two items went out on telegram.
C18_Witness ==
    /\ Active
    /\ last_dispatch.out.telegram.reason = "ok"
    /\ Len(last_dispatch.out.telegram.message) = 2
    /\ Cardinality(LogsAddedOn("telegram")) = 2

OtherChannel(channel) == IF channel = "email" THEN "telegram" ELSE "email"

-----------------------------------------------------------------------------
(* Overlapping dispatches: the scheduler's worker thread and a request      *)
(* handler each run a dispatch for the same user on a session of their own. *)

\* both channels usable, alerts on
RaceSetting ==
    [present |-> TRUE, bargain_alert_enabled |-> TRUE,
     email_enabled |-> TRUE, email_address |-> <<"m">>,
     telegram_enabled |-> TRUE, telegram_chat_id |-> <<"c">>]

Entries == {"scheduler", "manual"}

\* the caller has collected its candidates and enters the email block
race_begin ==
    \E d \in Entries, items \in {<<ItemA>>, <<ItemARepriced>>} :
        /\ dispatchers[d].pc = "idle"
        /\ dispatchers' = [dispatchers EXCEPT ![d] =
              [pc |-> "email", items |-> items, added |-> <<>>, sent |-> 0]]
        /\ UNCHANGED <<alert_log, delivered, send_failed, last_dispatch>>

\* lines 384-407 on the dispatcher's session: SELECT, send, add_all
race_email ==
    \E d \in Entries, ok \in BOOLEAN :
        /\ dispatchers[d].pc = "email"
        /\ LET step == ChannelStep(RaceSetting.email_enabled /\ Truthy(RaceSetting.email_address),
                                   alert_log, AlertUser, "email", dispatchers[d].items, ok)
           IN  /\ dispatchers' = [dispatchers EXCEPT ![d].pc = "telegram",
                                                      ![d].added = @ \o step.added,
                                                      ![d].sent = @ + step.sent]
               /\ delivered' = delivered (+)
                     SetToBag(IF step.sent > 0 THEN PairsOf("email", step.message) ELSE {})
        /\ UNCHANGED <<alert_log, send_failed, last_dispatch>>

\* lines 409-431
race_telegram ==
    \E d \in Entries, ok \in BOOLEAN :
        /\ dispatchers[d].pc = "telegram"
        /\ LET step == ChannelStep(RaceSetting.telegram_enabled
                                       /\ Truthy(RaceSetting.telegram_chat_id),
                                   alert_log, AlertUser, "telegram", dispatchers[d].items, ok)
           IN  /\ dispatchers' = [dispatchers EXCEPT ![d].pc = "commit",
                                                      ![d].added = @ \o step.added,
                                                      ![d].sent = @ + step.sent]
               /\ delivered' = delivered (+)
                     SetToBag(IF step.sent > 0 THEN PairsOf("telegram", step.message) ELSE {})
        /\ UNCHANGED <<alert_log, send_failed, last_dispatch>>

\* the caller's `if email_sent or telegram_sent: db.commit()`; a commit the
\* unique constraint rejects stores nothing (the scheduler rolls back, the
\* request ends with its session closed)
race_commit ==
    \E d \in Entries :
        /\ dispatchers[d].pc = "commit"
        /\ alert_log' = IF dispatchers[d].sent > 0
                        THEN CommitLogs(alert_log, dispatchers[d].added).log
                        ELSE alert_log
        /\ dispatchers' = [dispatchers EXCEPT ![d] = NoDispatcher]
        /\ UNCHANGED <<delivered, send_failed, last_dispatch>>

NextRace ==
    \/ race_begin /\ UNCHANGED <<ingestVars, priceVars, bargainVars, tickVars, apiVars>>
    \/ race_email /\ UNCHANGED <<ingestVars, priceVars, bargainVars, tickVars, apiVars>>
    \/ race_telegram /\ UNCHANGED <<ingestVars, priceVars, bargainVars, tickVars, apiVars>>
    \/ race_commit /\ UNCHANGED <<ingestVars, priceVars, bargainVars, tickVars, apiVars>>

SpecRace == Init /\ [][NextRace]_vars

\* C20: over any interleaving of scheduler-driven and manually triggered
\* dispatches for the same user, a listing event (complex, article, deal
\* price) is delivered on a channel at most once.
C20_DeliveredAtMostOnce ==
    \A pair \in BagToSet(delivered) : CopiesIn(pair, delivered) <= 1

-----------------------------------------------------------------------------
(* services/scheduler.py: the tick of the scheduler loop, from the clock   *)
(* and the live configuration to the batch over the watched complexes.     *)

\* "%02d"
TwoDigits(n) == <<Digits[(n \div 10) + 1], Digits[(n % 10) + 1]>>

\* str.split(",")
RECURSIVE SplitCommas(_)
SplitCommas(s) ==
    IF \A i \in 1..Len(s) : s[i] # "," THEN <<s>>
    ELSE LET k == CHOOSE i \in 1..Len(s) : s[i] = "," /\ \A j \in 1..(i - 1) : s[j] # ","
         IN  <<SubSeq(s, 1, k - 1)>> \o SplitCommas(SubSeq(s, k + 1, Len(s)))

\* lines 24-30
parse_times(raw) ==
    {value \in {Strip(SplitCommas(raw)[i]) : i \in 1..Len(SplitCommas(raw))} :
        Len(value) = 5 /\ value[3] = ":"}

\* lines 33-39
RECURSIVE parse_complex_nos_of(_)
parse_complex_nos_of(tokens) ==
    IF tokens = <<>> THEN <<>>
    ELSE (IF IsDigit(Strip(Head(tokens))) THEN <<DecimalValue(Strip(Head(tokens)))>> ELSE <<>>)
            \o parse_complex_nos_of(Tail(tokens))

parse_complex_nos(raw) == parse_complex_nos_of(SplitCommas(raw))

\* the time zones ZoneInfo knows, with their offset from UTC in minutes
Seoul == <<"Asia/Seoul">>
LosAngeles == <<"America/Los_Angeles">>
KnownZones == {Seoul, LosAngeles}

UtcOffset(zone) == IF zone = Seoul THEN 540 ELSE 0 - 480

Text0900 == <<"0", "9", ":", "0", "0">>
Text0000 == <<"0", "0", ":", "0", "0">>
Text1800 == <<"1", "8", ":", "0", "0">>

\* the scheduler's part of Settings
SchedulerSettings ==
    [scheduler_enabled |-> TRUE,
     scheduler_timezone |-> Seoul,
     scheduler_times_csv |-> Text0000 \o <<",">> \o Text0900,
     scheduler_poll_seconds |-> 20,
     scheduler_complex_nos_csv |-> <<"2", ",", " ", "x", ",", "2">>]

Max(a, b) == IF a >= b THEN a ELSE b

\* lines 49-54: SELECT DISTINCT complex_no ... WHERE enabled ORDER BY complex_no
WatchComplexNos(rows) == Ascending({w.complex_no : w \in {r \in rows : r.enabled}})

\* a slip that keeps the configuration the process started with
load_runtime_config_at_start(row, watch_rows, crawler_reuse_window_hours) ==
    LET watch_complex_nos == WatchComplexNos(watch_rows)
        fallback_complex_nos == parse_complex_nos(SchedulerSettings.scheduler_complex_nos_csv)
    IN  [enabled |-> SchedulerSettings.scheduler_enabled,
         timezone |-> SchedulerSettings.scheduler_timezone,
         times |-> parse_times(SchedulerSettings.scheduler_times_csv),
         poll_seconds |-> Max(5, SchedulerSettings.scheduler_poll_seconds),
         complex_nos |-> IF watch_complex_nos # <<>> THEN watch_complex_nos
                         ELSE fallback_complex_nos,
         reuse_bucket_hours |-> Max(0, crawler_reuse_window_hours)]

\* lines 41-65
load_runtime_config(row, watch_rows, crawler_reuse_window_hours) ==
    LET watch_complex_nos == WatchComplexNos(watch_rows)
        fallback_complex_nos == parse_complex_nos(SchedulerSettings.scheduler_complex_nos_csv)
    IN  [enabled |-> IF row.present THEN row.enabled
                     ELSE SchedulerSettings.scheduler_enabled,
         timezone |-> IF row.present THEN row.timezone
                      ELSE SchedulerSettings.scheduler_timezone,
         times |-> parse_times(IF row.present THEN row.times_csv
                               ELSE SchedulerSettings.scheduler_times_csv),
         poll_seconds |-> Max(5, IF row.present THEN row.poll_seconds
                                 ELSE SchedulerSettings.scheduler_poll_seconds),
         complex_nos |-> IF watch_complex_nos # <<>> THEN watch_complex_nos
                         ELSE fallback_complex_nos,
         reuse_bucket_hours |-> Max(0, IF row.present THEN row.reuse_bucket_hours
                                       ELSE crawler_reuse_window_hours)]

\* lines 127-130: ZoneInfo(timezone_name), or the settings' zone
ResolveZone(timezone_name) ==
    IF timezone_name \in KnownZones THEN timezone_name
    ELSE SchedulerSettings.scheduler_timezone

\* datetime.now(timezone), in minutes since 00:00 of day 0 on the zone's clock
LocalNow(t, zone) == t + UtcOffset(zone)

\* now.strftime("%H:%M")
strftime_hhmm(local) == TwoDigits((local % 1440) \div 60) \o <<":">> \o TwoDigits(local % 60)

\* now.strftime("%Y-%m-%d %H:%M"): the calendar day and the minute of the day
RunKey(local) == [date |-> local \div 1440, hhmm |-> strftime_hhmm(local)]

MaxExecutedKeys == 1000

\* a slip that cuts the set down on every tick, whatever its size
PruneOnEveryTick(keys, today) == {key \in keys : key.date = today}

\* lines 142-144
Prune(keys, today) ==
    IF Cardinality(keys) > MaxExecutedKeys THEN {key \in keys : key.date = today}
    ELSE keys

-----------------------------------------------------------------------------
(* main.py: PUT /scheduler/config                                          *)

\* lines 346-351: the minute of the day a token names, or None
ValidTime(token) ==
    LET value == Strip(token)
    IN  IF /\ Len(value) = 5
           /\ value[3] = ":"
           /\ IsDigit(SubSeq(value, 1, 2))
           /\ IsDigit(SubSeq(value, 4, 5))
           /\ DecimalValue(SubSeq(value, 1, 2)) <= 23
           /\ DecimalValue(SubSeq(value, 4, 5)) <= 59
        THEN 60 * DecimalValue(SubSeq(value, 1, 2)) + DecimalValue(SubSeq(value, 4, 5))
        ELSE None

\* f"{hour:02d}:{minute:02d}"
FormatTime(minute_of_day) ==
    TwoDigits(minute_of_day \div 60) \o <<":">> \o TwoDigits(minute_of_day % 60)

\* the parser keeping the tokens in the order given
parse_scheduler_times_unsorted(raw) ==
    LET tokens == SplitCommas(raw)
        RECURSIVE Kept(_)
        Kept(i) == IF i > Len(tokens) THEN <<>>
                   ELSE (IF ValidTime(tokens[i]) # None
                         THEN <<FormatTime(ValidTime(tokens[i]))>> ELSE <<>>) \o Kept(i + 1)
    IN  Kept(1)

\* lines 343-352: sorted(set(result)); texts of the form HH:MM sort as their
\* minutes of the day do
parse_scheduler_times(raw) ==
    LET tokens == SplitCommas(raw)
        minutes == {ValidTime(tokens[i]) : i \in 1..Len(tokens)} \ {None}
        sorted == Ascending(minutes)
    IN  [i \in 1..Len(sorted) |-> FormatTime(sorted[i])]

\* ",".join(values)
RECURSIVE JoinCommas(_)
JoinCommas(values) ==
    IF values = <<>> THEN <<>>
    ELSE IF Len(values) = 1 THEN Head(values)
    ELSE Head(values) \o <<",">> \o JoinCommas(Tail(values))

AllowedReuseBucketHours == {0, 6, 12, 24}

\* lines 472-481
RejectsReuseBucket(reuse_bucket_hours) ==
    \/ reuse_bucket_hours < 0 \/ reuse_bucket_hours > 24
    \/ reuse_bucket_hours \notin AllowedReuseBucketHours

\* lines 449-501: the response status and the row the request leaves behind
scheduler_config_update(row, enabled, timezone, times_csv, poll_seconds, reuse_bucket_hours) ==
    LET normalized_timezone == Strip(timezone)
        normalized_times == parse_scheduler_times(times_csv)
    IN  IF normalized_timezone \notin KnownZones
        THEN [status |-> 400, detail |-> "Invalid timezone", row |-> row]
        ELSE IF normalized_times = <<>>
        THEN [status |-> 400, detail |-> "times_csv", row |-> row]
        ELSE IF poll_seconds < 5 \/ poll_seconds > 300
        THEN [status |-> 400, detail |-> "poll_seconds", row |-> row]
        ELSE IF RejectsReuseBucket(reuse_bucket_hours)
        THEN [status |-> 400, detail |-> "reuse_bucket_hours", row |-> row]
        ELSE [status |-> 200, detail |-> "",
              row |-> [present |-> TRUE, enabled |-> enabled,
                       timezone |-> normalized_timezone,
                       times_csv |-> JoinCommas(normalized_times),
                       poll_seconds |-> poll_seconds,
                       reuse_bucket_hours |-> reuse_bucket_hours]]

-----------------------------------------------------------------------------
(* The scheduler loop as a state machine: the clock, the configuration     *)
(* requests, the test of _run_if_due and the batch over the complexes.     *)

MaxBatches == 3

ThirdUser == 3

\* 15:00 of day 0, 00:00 and 00:01 of day 1, 15:00 and 17:00 of day 1 (UTC)
FireInstants == {900, 1440, 1441, 2340, 2460}

\* the keys of a scheduler that fired at 09:00 on each of the last
\* MaxExecutedKeys - 1 days
OldKeys == {[date |-> 0 - d, hhmm |-> Text0900] : d \in 1..(MaxExecutedKeys - 1)}

\* the answers of the listing source during a batch
BatchUpstreams ==
    {<<Listed(<<SaleArticle(StrNo(<<"7">>), <<"5", "eok">>)>>), Failure>>,
     <<Listed(<<SaleArticle(StrNo(<<"7">>), <<"5", "eok">>)>>)>>}

\* what collect_user_bargains gives for a watcher of the complex: it raises,
\* or returns its items
CollectOutcomes(complex_no) ==
    {[raises |-> TRUE, items |-> <<>>],
     [raises |-> FALSE, items |-> <<>>],
     [raises |-> FALSE, items |-> <<WithComplex(ItemA, complex_no)>>]}

WatchRow(user_id, complex_no, enabled) ==
    [user_id |-> user_id, complex_no |-> complex_no, enabled |-> enabled]

\* the watch lists of the scenario: both complexes watched; complex 2 watched
\* by a disabled row only; no enabled watch at all
WatchTables ==
    {{WatchRow(AlertUser, 1, TRUE), WatchRow(OtherUser, 1, TRUE), WatchRow(ThirdUser, 1, TRUE),
      WatchRow(AlertUser, 2, TRUE), WatchRow(OtherUser, 2, FALSE)},
     {WatchRow(AlertUser, 1, TRUE), WatchRow(AlertUser, 2, FALSE)},
     {WatchRow(AlertUser, 1, FALSE)}}

EmailOnly ==
    [present |-> TRUE, bargain_alert_enabled |-> TRUE,
     email_enabled |-> TRUE, email_address |-> <<"m">>,
     telegram_enabled |-> FALSE, telegram_chat_id |-> NoneText]

\* the requests PUT /scheduler/config gets in the scenario
ConfigRequests ==
    {[enabled |-> TRUE, timezone |-> LosAngeles, times_csv |-> Text0900,
      poll_seconds |-> 20, reuse_bucket_hours |-> 0],
     [enabled |-> FALSE, timezone |-> Seoul, times_csv |-> Text0900,
      poll_seconds |-> 20, reuse_bucket_hours |-> 6]}

\* one user watches one complex
OneWatch == {WatchRow(AlertUser, 1, TRUE)}

TickInitOver(key_sets, watch_tables) ==
    /\ IngestInit
    /\ PriceIdle
    /\ BargainIdle
    /\ AlertIdle
    /\ ApiIdle
    /\ executed_keys \in key_sets
    /\ scheduler_config = NoRow
    /\ watches \in watch_tables
    /\ users = (AlertUser :> [present |-> TRUE, is_active |-> TRUE])
                  @@ (OtherUser :> [present |-> TRUE, is_active |-> FALSE])
                  @@ (ThirdUser :> [present |-> TRUE, is_active |-> TRUE])
    /\ notification_settings = (AlertUser :> EmailOnly) @@ (OtherUser :> EmailOnly)
                                  @@ (ThirdUser :> NoSetting)
    /\ batch = NoBatch
    /\ fired = <<>>
    /\ last_tick = NoTick

\* time passes on the host of the scheduler
clock_advance ==
    /\ last_tick = NoTick
    /\ \E t \in FireInstants : t > now /\ now' = t
    /\ UNCHANGED <<settings_window, crawl_runs, listing_snapshots, next_run_id,
                   watch_ingest, scheduler, last_call, failed_in_scheduler>>
    /\ UNCHANGED <<priceVars, bargainVars, alertVars, tickVars, apiVars>>

\* main.py scheduler_config_update, between two calls of _run_if_due
put_scheduler_config ==
    /\ batch = NoBatch
    /\ last_tick = NoTick
    /\ \E r \in ConfigRequests :
          scheduler_config' = scheduler_config_update(scheduler_config, r.enabled, r.timezone,
                                  r.times_csv, r.poll_seconds, r.reuse_bucket_hours).row
    /\ UNCHANGED <<executed_keys, watches, users, notification_settings, batch, fired, last_tick>>
    /\ UNCHANGED <<ingestVars, priceVars, bargainVars, alertVars, apiVars>>

\* lines 141-144
RecordKey(keys, run_key) == Prune(keys \cup {run_key}, run_key.date)

\* the test without the look at the recorded keys
IsDueIgnoringKeys(config, hhmm, run_key, keys) ==
    /\ config.enabled /\ config.times # {} /\ config.complex_nos # <<>>
    /\ hhmm \in config.times

\* lines 124-139: the tick goes on to the batch
IsDue(config, hhmm, run_key, keys) ==
    /\ config.enabled /\ config.times # {} /\ config.complex_nos # <<>>
    /\ hhmm \in config.times
    /\ run_key \notin keys

\* lines 113-152: one call of _run_if_due up to its loop
run_if_due_check ==
    /\ batch = NoBatch
    /\ last_tick = NoTick
    /\ LET config == load_runtime_config(scheduler_config, watches, settings_window)
           local == LocalNow(now, ResolveZone(config.timezone))
           hhmm == strftime_hhmm(local)
           run_key == RunKey(local)
           due == IsDue(config, hhmm, run_key, executed_keys)
       IN  /\ due => Len(fired) < MaxBatches
           /\ last_tick' = [made |-> TRUE, at |-> now, config |-> config, hhmm |-> hhmm,
                            run_key |-> run_key, keys_before |-> executed_keys,
                            started |-> due, poll_seconds |-> config.poll_seconds]
           /\ executed_keys' = IF due THEN RecordKey(executed_keys, run_key)
                               ELSE executed_keys
           /\ batch' = IF due
                       THEN [pc |-> "ingest", run_key |-> run_key, sess |-> EmptySession,
                             todo |-> config.complex_nos, watchers |-> {},
                             reuse_bucket_hours |-> config.reuse_bucket_hours]
                       ELSE NoBatch
           /\ fired' = IF due
                       THEN Append([i \in 1..Len(fired) |-> [fired[i] EXCEPT !.events = <<>>]],
                                   [run_key |-> run_key, at |-> now,
                                    complex_nos |-> config.complex_nos,
                                    keys_after |-> RecordKey(executed_keys, run_key),
                                    events |-> <<>>, returned |-> FALSE])
                       ELSE fired
    /\ UNCHANGED <<scheduler_config, watches, users, notification_settings>>
    /\ UNCHANGED <<ingestVars, priceVars, bargainVars, alertVars, apiVars>>

\* the loop has taken the result of the test
tick_seen ==
    /\ last_tick # NoTick
    /\ last_tick' = NoTick
    /\ UNCHANGED <<executed_keys, scheduler_config, watches, users, notification_settings,
                   batch, fired>>
    /\ UNCHANGED <<ingestVars, priceVars, bargainVars, alertVars, apiVars>>

\* the history of the running batch grows by one event
Logged(event) == [fired EXCEPT ![Len(fired)].events = Append(@, event)]

\* lines 75-81: set(watcher_user_ids) of the complex
WatcherUserIds(complex_no) ==
    {w.user_id : w \in {r \in watches : r.complex_no = complex_no /\ r.enabled}}

\* the loop when the handler of line 170 leaves it
StopBatch(todo) == <<>>

\* lines 170-172: the loop goes on with the next complex
NextComplex(todo) == Tail(todo)

\* lines 155-172: the batch after the ingest call of the complex
AfterIngest(b, complex_no, out) ==
    IF out.raised = ""
    THEN [b EXCEPT !.pc = "alert", !.sess = out.sess,
                   !.watchers = WatcherUserIds(complex_no)]
    ELSE [b EXCEPT !.sess = AfterSchedulerException(out.sess),
                   !.todo = NextComplex(@)]

\* lines 154-164 and 170-172: the ingest call for the next complex
run_if_due_ingest ==
    /\ batch.pc = "ingest"
    /\ batch.todo # <<>>
    /\ last_tick = NoTick
    /\ \E upstream \in BatchUpstreams :
          LET c == Head(batch.todo)
              window == ResolveReuseWindow(batch.reuse_bucket_hours, settings_window)
          IN  \E existing \in ExistingRunChoices(Database, batch.sess, c, window, now) :
                LET out == ingest_complex_snapshot(Database, batch.sess, c, 1,
                               SchedulerMaxPages, window, existing, upstream, now)
                IN  /\ StoreDatabase(out.db)
                    /\ batch' = AfterIngest(batch, c, out)
                    /\ fired' = Logged([kind |-> "ingest", complex_no |-> c,
                                        max_pages |-> SchedulerMaxPages,
                                        raised |-> out.raised])
    /\ UNCHANGED <<now, settings_window, watch_ingest, scheduler, last_call,
                   failed_in_scheduler>>
    /\ UNCHANGED <<executed_keys, scheduler_config, watches, users, notification_settings,
                   last_tick>>
    /\ UNCHANGED <<priceVars, bargainVars, alertVars, apiVars>>

\* the batch after one watcher: on to the next watcher, or to the next complex
AfterWatcher(b, user_id, raised) ==
    IF raised \/ b.watchers = {user_id}
    THEN [b EXCEPT !.pc = "ingest", !.watchers = {}, !.todo = NextComplex(@),
                   !.sess = IF raised THEN Rollback(@) ELSE @]
    ELSE [b EXCEPT !.watchers = @ \ {user_id}]

\* the test of lines 83 and 86 without the look at is_active
SkipsUserIgnoringActive(user, setting) ==
    \/ ~user.present
    \/ ~setting.present \/ ~setting.bargain_alert_enabled

\* lines 82-87
SkipsUser(user, setting) ==
    \/ ~user.present \/ ~user.is_active
    \/ ~setting.present \/ ~setting.bargain_alert_enabled

\* lines 81-111 for one watcher of the complex, and the handler of line 167
run_if_due_alert ==
    /\ batch.pc = "alert"
    /\ last_tick = NoTick
    /\ LET c == Head(batch.todo)
       IN  IF batch.watchers = {}
           THEN /\ batch' = [batch EXCEPT !.pc = "ingest", !.todo = NextComplex(@)]
                /\ UNCHANGED <<fired, alert_log, delivered, send_failed>>
           ELSE \E user_id \in batch.watchers :
                  IF SkipsUser(users[user_id], notification_settings[user_id])
                  THEN /\ batch' = AfterWatcher(batch, user_id, FALSE)
                       /\ UNCHANGED <<fired, alert_log, delivered, send_failed>>
                  ELSE \E collected \in CollectOutcomes(c), email_ok \in BOOLEAN :
                         LET out == IF collected.raises THEN NotDispatched
                                    ELSE dispatch_user_bargain_alerts(alert_log, user_id,
                                             notification_settings[user_id],
                                             collected.items, email_ok, TRUE)
                             committing == out.email_sent > 0 \/ out.telegram_sent > 0
                             commit == CommitLogs(alert_log, out.added)
                             raised == collected.raises \/ (committing /\ ~commit.ok)
                         IN  /\ alert_log' = IF committing THEN commit.log ELSE alert_log
                             /\ delivered' = delivered (+) SetToBag(SentPairs(out))
                             /\ send_failed' = (send_failed \ SentPairs(out))
                                                  \cup FailedPairs(out)
                             /\ batch' = AfterWatcher(batch, user_id, raised)
                             /\ fired' = Logged([kind |-> "dispatch", complex_no |-> c,
                                                 user_id |-> user_id,
                                                 called |-> ~collected.raises,
                                                 raised |-> IF collected.raises
                                                            THEN "Exception"
                                                            ELSE IF raised
                                                            THEN "IntegrityError" ELSE ""])
    /\ UNCHANGED <<dispatchers, last_dispatch>>
    /\ UNCHANGED <<executed_keys, scheduler_config, watches, users, notification_settings,
                   last_tick>>
    /\ UNCHANGED <<ingestVars, priceVars, bargainVars, apiVars>>

\* lines 173-175: return poll_seconds, finally db.close()
run_if_due_return ==
    /\ batch.pc = "ingest"
    /\ batch.todo = <<>>
    /\ last_tick = NoTick
    /\ batch' = NoBatch
    /\ fired' = [fired EXCEPT ![Len(fired)].returned = TRUE]
    /\ UNCHANGED <<executed_keys, scheduler_config, watches, users, notification_settings,
                   last_tick>>
    /\ UNCHANGED <<ingestVars, priceVars, bargainVars, alertVars, apiVars>>

NextTick ==
    \/ clock_advance
    \/ put_scheduler_config
    \/ run_if_due_check
    \/ tick_seen
    \/ run_if_due_ingest
    \/ run_if_due_alert
    \/ run_if_due_return

TickInit == TickInitOver({{}, OldKeys}, {OneWatch})

SpecTick == TickInit /\ [][NextTick]_vars

\* the batch alone, over the watch tables of the scenario
BatchInit == TickInitOver({{}}, WatchTables)

NextBatch ==
    \/ clock_advance
    \/ run_if_due_check
    \/ tick_seen
    \/ run_if_due_ingest
    \/ run_if_due_alert
    \/ run_if_due_return

SpecBatch == BatchInit /\ [][NextBatch]_vars


-----------------------------------------------------------------------------
\* the tick found a fire time of the live configuration on the zone's clock,
\* with the scheduler enabled and complexes to ingest
TickOnFireTime ==
    /\ last_tick.made
    /\ last_tick.config.enabled
    /\ last_tick.config.complex_nos # <<>>
    /\ last_tick.hhmm \in last_tick.config.times

\* the batches started so far for the key
BatchesOf(run_key) == {i \in 1..Len(fired) : fired[i].run_key = run_key}

\* C21 as stated: the ticks of one scheduler that fall in the same
\* (date, HH:MM) of a configured fire time start the batch exactly once:
\* the first of them starts it, and no two batches ever carry the same key.
C21_OneBatchPerDateAndMinute ==
    /\ TickOnFireTime => Cardinality(BatchesOf(last_tick.run_key)) = 1
    /\ \A i, j \in 1..Len(fired) : i # j => fired[i].run_key # fired[j].run_key

\* C21 (amended): the first tick on a fire time whose key the scheduler does
\* not hold starts the batch and records the key before the batch runs; a
\* tick whose key is held starts nothing; two batches carry the same key
\* only if, between them, the key set was cut down to another day's keys.
C21_OneBatchPerKeptKey ==
    /\ last_tick.made =>
          /\ last_tick.started <=>
                (TickOnFireTime /\ last_tick.run_key \notin last_tick.keys_before)
          /\ last_tick.started =>
                /\ last_tick.run_key \in executed_keys
                /\ fired[Len(fired)].run_key = last_tick.run_key
                /\ fired[Len(fired)].events = <<>>
          /\ ~last_tick.started => batch = NoBatch
    /\ \A i, j \in 1..Len(fired) :
          (i < j /\ fired[i].run_key = fired[j].run_key) =>
              /\ fired[i].run_key \in fired[i].keys_after
              /\ \E m \in (i + 1)..(j - 1) :
                    /\ fired[i].run_key \notin fired[m].keys_after
                    /\ fired[m].run_key.date # fired[i].run_key.date

\* C21 witness: a batch in which an ingest failed has returned, and the
\* next tick, in the same minute of the same fire time, started nothing.
C21_Witness ==
    /\ last_tick.made
    /\ TickOnFireTime
    /\ ~last_tick.started
    /\ fired # <<>>
    /\ fired[Len(fired)].run_key = last_tick.run_key
    /\ fired[Len(fired)].at = last_tick.at
    /\ fired[Len(fired)].returned
    /\ \E e \in 1..Len(fired[Len(fired)].events) :
          fired[Len(fired)].events[e].kind = "ingest"
          /\ fired[Len(fired)].events[e].raised # ""

-----------------------------------------------------------------------------
\* the batch that is running, or the last one that ran
ThisBatch == fired[Len(fired)]

EventsOf(kind) == SelectSeq(ThisBatch.events, LAMBDA e : e.kind = kind)

IngestedComplexes == [i \in 1..Len(EventsOf("ingest")) |-> EventsOf("ingest")[i].complex_no]

IsPrefix(s, t) == Len(s) <= Len(t) /\ \A i \in 1..Len(s) : s[i] = t[i]

\* the watchers of the complex the batch does not skip
AlertableWatchers(complex_no) ==
    {u \in WatcherUserIds(complex_no) : ~SkipsUser(users[u], notification_settings[u])}

\* the positions in the batch's history of the ingest calls and dispatches
EventsAt(kind, complex_no) ==
    {i \in 1..Len(ThisBatch.events) :
        ThisBatch.events[i].kind = kind /\ ThisBatch.events[i].complex_no = complex_no}

-----------------------------------------------------------------------------
\* the complexes with at least one enabled watch row
WatchedComplexes == {w.complex_no : w \in {r \in watches : r.enabled}}

\* C23: a batch is over the distinct complexes with an enabled watcher, each
\* ingested exactly once with the scheduler's page budget, and over the
\* configured list only when no watch is enabled; every dispatch of the
\* batch is for an enabled watcher of the complex who is an active user, and
\* comes after a successful ingest call of that complex in the same batch.
C23_BatchOverWatchedComplexes ==
    fired # <<>> =>
        /\ WatchedComplexes # {} =>
              /\ {ThisBatch.complex_nos[i] : i \in 1..Len(ThisBatch.complex_nos)}
                    = WatchedComplexes
              /\ \A c \in WatchedComplexes :
                    /\ Cardinality(EventsAt("ingest", c)) <= 1
                    /\ ThisBatch.returned => Cardinality(EventsAt("ingest", c)) = 1
        /\ WatchedComplexes = {} =>
              ThisBatch.complex_nos
                 = parse_complex_nos(SchedulerSettings.scheduler_complex_nos_csv)
        /\ \A i \in 1..Len(ThisBatch.events) :
              LET e == ThisBatch.events[i]
              IN  /\ e.kind = "ingest" => e.max_pages = SchedulerMaxPages
                  /\ e.kind = "dispatch" =>
                        /\ WatchRow(e.user_id, e.complex_no, TRUE) \in watches
                        /\ users[e.user_id].present /\ users[e.user_id].is_active
                        /\ \E k \in EventsAt("ingest", e.complex_no) :
                              k < i /\ ThisBatch.events[k].raised = ""
                        /\ \A k \in 1..(i - 1) :
                              (ThisBatch.events[k].kind = "ingest"
                               /\ \A n \in (k + 1)..(i - 1) :
                                     ThisBatch.events[n].kind # "ingest") =>
                                 /\ ThisBatch.events[k].complex_no = e.complex_no
                                 /\ ThisBatch.events[k].raised = ""

\* C23 witness: a returned batch over complexes 1 and 2, where complex 1 is
\* watched by an active and an inactive user: both complexes were ingested,
\* the active watcher was alerted for both, the inactive one for none.
C23_Witness ==
    /\ fired # <<>>
    /\ ThisBatch.returned
    /\ ThisBatch.complex_nos = <<1, 2>>
    /\ WatchRow(OtherUser, 1, TRUE) \in watches
    /\ \E i \in EventsAt("dispatch", 1) :
          ThisBatch.events[i].user_id = AlertUser /\ ThisBatch.events[i].called
    /\ \E i \in EventsAt("dispatch", 2) :
          ThisBatch.events[i].user_id = AlertUser /\ ThisBatch.events[i].called

-----------------------------------------------------------------------------
(* crawler/naver_client.py _request_json and main.py                       *)
(* _map_crawler_runtime_error: what the listing source's failure becomes.  *)

\* str(n) for n >= 0
RECURSIVE ToDigits(_)
ToDigits(n) == IF n < 10 THEN <<Digits[n + 1]>> ELSE ToDigits(n \div 10) \o <<Digits[(n % 10) + 1]>>

\* pattern in text
Contains(text, pattern) ==
    \E i \in 1..(Len(text) - Len(pattern) + 1) : SubSeq(text, i, i + Len(pattern) - 1) = pattern

\* the words of the messages that have capitals, with their lower case
LowerCase ==
    <<<<"Too", "too">>, <<"Many", "many">>, <<"Requests", "requests">>,
      <<"TOO_MANY_REQUESTS", "too_many_requests">>, <<"NOT_FOUND", "not_found">>,
      <<"TEMPORARY_ERROR", "temporary_error">>, <<"None", "none">>,
      <<"Forbidden", "forbidden">>, <<"Internal", "internal">>, <<"Server", "server">>,
      <<"Error", "error">>, <<"Unknown", "unknown">>, <<"Naver", "naver">>,
      <<"API", "api">>, <<"HTTP", "http">>, <<"JSON", "json">>, <<"Not", "not">>,
      <<"Found", "found">>, <<"Rate", "rate">>, <<"Limit", "limit">>>>

LowerChar(c) ==
    IF \E i \in 1..Len(LowerCase) : LowerCase[i][1] = c
    THEN LowerCase[CHOOSE i \in 1..Len(LowerCase) : LowerCase[i][1] = c][2]
    ELSE c

\* str.lower()
Lower(text) == [i \in 1..Len(text) |-> LowerChar(text[i])]

\* lines 111-141 after the last attempt: str(RuntimeError) for the failure
FailureMessage(failure) ==
    IF failure.kind = "api"
    THEN <<"Naver", " ", "API", " ", "returned", " ", "error", ".", " ", "code", "=">>
            \o failure.code \o <<",", " ", "message", "=">>
            \o (IF failure.message = <<>> THEN <<"Unknown", " ", "error">> ELSE failure.message)
    ELSE IF failure.kind = "http"
    THEN <<"Naver", " ", "API", " ", "HTTP", " ", "error", ":", " ">>
            \o ToDigits(failure.status) \o <<" ">> \o failure.reason
    ELSE IF failure.kind = "network"
    THEN <<"Naver", " ", "API", " ", "network", " ", "error", ":", " ">> \o failure.reason
    ELSE IF failure.kind = "timeout"
    THEN <<"Naver", " ", "API", " ", "request", " ", "timed", " ", "out">>
    ELSE <<"Naver", " ", "API", " ", "returned", " ", "invalid", " ", "JSON">>

\* main.py lines 161-168
IsRateLimitMessage(message) ==
    \/ Contains(message, <<"4", "2", "9">>)
    \/ Contains(Lower(message), <<"too", " ", "many", " ", "requests">>)
    \/ Contains(Lower(message), <<"rate", " ", "limit">>)
    \/ Contains(Lower(message), <<"too_many_requests">>)

\* main.py lines 160-176: the status of the HTTPException
map_crawler_runtime_error(message) == IF IsRateLimitMessage(message) THEN 503 ELSE 502

\* the failures _request_json ends with: an HTTP error status with its
\* reason phrase, an error payload with its code and message, a network
\* error, a timeout, a body that is not JSON
HttpFailure(code, reason) == [kind |-> "http", status |-> code, reason |-> reason]
ApiFailure(code, message) == [kind |-> "api", code |-> code, message |-> message]

Complex14290NotFound == <<"complex", " ", "1", "4", "2", "9", "0", " ", "not", " ", "found">>
Complex2977NotFound == <<"complex", " ", "2", "9", "7", "7", " ", "not", " ", "found">>

UpstreamFailures ==
    {HttpFailure(c, r) : c \in {400, 401, 403, 404, 500, 502, 503, 504},
                         r \in {<<>>, <<"Forbidden">>, <<"Not", " ", "Found">>,
                                <<"Internal", " ", "Server", " ", "Error">>}}
    \cup {HttpFailure(429, r) : r \in {<<>>, <<"Too", " ", "Many", " ", "Requests">>}}
    \cup {ApiFailure(c, m) :
             c \in {<<"TOO_MANY_REQUESTS">>, <<"TEMPORARY_ERROR">>, <<"NOT_FOUND">>, <<"None">>},
             m \in {<<>>, <<"try", " ", "later">>, Complex2977NotFound, Complex14290NotFound}}
    \cup {[kind |-> "network", reason |-> r] :
             r \in {<<"timed", " ", "out">>, <<"Connection", " ", "refused">>}}
    \cup {[kind |-> "timeout"], [kind |-> "json"]}

\* the handlers that answer with the mapped exception
MappingHandlers == {"crawler_ingest", "crawler_articles", "crawler_search_complexes"}

ErrorsInit ==
    /\ IngestInit
    /\ PriceIdle
    /\ BargainIdle
    /\ AlertIdle
    /\ ServiceIdle

\* main.py lines 507-510, 532-535, 556-567: the call to the listing source
\* raised RuntimeError and the handler answers with the mapped status
upstream_failure_mapped ==
    /\ api_call = NoRequest
    /\ \E op \in MappingHandlers, failure \in UpstreamFailures :
          api_call' = [op |-> op, failure |-> failure,
                       message |-> FailureMessage(failure),
                       status |-> map_crawler_runtime_error(FailureMessage(failure))]
    /\ UNCHANGED <<registration_attempts, register_threads, register_log, auth_refresh_tokens>>
    /\ UNCHANGED <<ingestVars, priceVars, bargainVars, alertVars, tickVars>>

\* the response has gone out
response_sent ==
    /\ api_call # NoRequest
    /\ api_call' = NoRequest
    /\ UNCHANGED <<registration_attempts, register_threads, register_log, auth_refresh_tokens>>
    /\ UNCHANGED <<ingestVars, priceVars, bargainVars, alertVars, tickVars>>

NextErrors ==
    \/ upstream_failure_mapped
    \/ response_sent

SpecErrors == ErrorsInit /\ [][NextErrors]_vars

\* the listing source answered 429, or with the code TOO_MANY_REQUESTS
RateLimited(failure) ==
    \/ failure.kind = "http" /\ failure.status = 429
    \/ failure.kind = "api" /\ failure.code = <<"TOO_MANY_REQUESTS">>

\* C24: a failure of the listing source is answered with 503 exactly when
\* it is a rate limiting (HTTP 429, too many requests), and with 502
\* otherwise.
C24_RateLimitIs503OthersAre502 ==
    api_call.op \in MappingHandlers =>
        api_call.status = (IF RateLimited(api_call.failure) THEN 503 ELSE 502)

-----------------------------------------------------------------------------
(* main.py _enforce_registration_rate_limit, called by auth_register on    *)
(* the worker threads of the request pool.                                 *)

\* settings.auth_register_rate_limit_per_window and
\* settings.auth_register_rate_limit_window_minutes
RegisterLimit == 2
RegisterWindowMinutes == 60

MaxAttempts == 4

WorkerThreads == {1, 2}
ClientKeys == {"a", "b"}

\* 13:05, 13:20, 14:05, 14:06 and 15:10 of day 0
RegisterInstants == {785, 800, 845, 846, 910}

ThreadIdle == [pc |-> "idle"]

LimiterInit ==
    /\ IngestInit
    /\ PriceIdle
    /\ BargainIdle
    /\ AlertIdle
    /\ TickIdle
    /\ registration_attempts = [k \in ClientKeys |-> <<>>]
    /\ register_threads = [th \in WorkerThreads |-> ThreadIdle]
    /\ register_log = <<>>
    /\ auth_refresh_tokens = <<>>
    /\ api_call = NoRequest

\* time passes
limiter_clock ==
    /\ \E t \in RegisterInstants : t > now /\ now' = t
    /\ UNCHANGED <<settings_window, crawl_runs, listing_snapshots, next_run_id,
                   watch_ingest, scheduler, last_call, failed_in_scheduler>>
    /\ UNCHANGED <<priceVars, bargainVars, alertVars, tickVars, apiVars>>

\* line 208: ts >= cutoff
StillCounts(ts, cutoff) == ts >= cutoff

\* lines 203-213: the attempts of the key are cut down to the window and
\* counted; the request is refused with 429 or goes on to line 214
enforce_check ==
    \E th \in WorkerThreads, client_key \in ClientKeys :
        /\ register_threads[th].pc = "idle"
        /\ Len(register_log) + Cardinality({o \in WorkerThreads : register_threads[o].pc # "idle"})
              < MaxAttempts
        /\ LET cutoff == now - RegisterWindowMinutes
               attempts == SelectSeq(registration_attempts[client_key],
                                     LAMBDA ts : StillCounts(ts, cutoff))
               refused == Len(attempts) >= RegisterLimit
           IN  /\ registration_attempts' = [registration_attempts EXCEPT ![client_key] = attempts]
               /\ register_threads' = [register_threads EXCEPT ![th] =
                     IF refused THEN ThreadIdle
                     ELSE [pc |-> "append", client_key |-> client_key, now |-> now]]
               /\ register_log' = IF refused
                                  THEN Append(register_log, [client_key |-> client_key, at |-> now,
                                                             status |-> 429,
                                                             counted |-> attempts])
                                  ELSE register_log
        /\ UNCHANGED <<api_call, auth_refresh_tokens>>
        /\ UNCHANGED <<ingestVars, priceVars, bargainVars, alertVars, tickVars>>

\* line 214: attempts.append(now)
enforce_append ==
    \E th \in WorkerThreads :
        /\ register_threads[th].pc = "append"
        /\ LET r == register_threads[th]
           IN  /\ registration_attempts' =
                     [registration_attempts EXCEPT ![r.client_key] = Append(@, r.now)]
               /\ register_log' = Append(register_log, [client_key |-> r.client_key, at |-> r.now,
                                                        status |-> 200,
                                                        counted |-> registration_attempts[r.client_key]])
        /\ register_threads' = [register_threads EXCEPT ![th] = ThreadIdle]
        /\ UNCHANGED <<api_call, auth_refresh_tokens>>
        /\ UNCHANGED <<ingestVars, priceVars, bargainVars, alertVars, tickVars>>

NextLimiter ==
    \/ limiter_clock
    \/ enforce_check
    \/ enforce_append

SpecLimiter == LimiterInit /\ [][NextLimiter]_vars

\* the attempts of the key accepted in the window that ends at the time
AcceptedWithin(client_key, until) ==
    {i \in 1..Len(register_log) :
        /\ register_log[i].client_key = client_key
        /\ register_log[i].status = 200
        /\ register_log[i].at <= until
        /\ register_log[i].at >= until - RegisterWindowMinutes}

\* C25: for each client key, no window of the configured length holds more
\* than `limit` accepted attempts; an attempt is refused with 429 exactly
\* when `limit` accepted attempts of the key lie in the window before it;
\* refused attempts are not recorded, and attempts older than the window
\* no longer count.
C25_AtMostLimitPerWindow ==
    /\ \A i \in 1..Len(register_log) :
          Cardinality(AcceptedWithin(register_log[i].client_key, register_log[i].at))
             <= RegisterLimit
    /\ \A k \in ClientKeys :
          \A j \in 1..Len(registration_attempts[k]) :
             \E i \in 1..Len(register_log) :
                register_log[i].client_key = k /\ register_log[i].status = 200
                /\ register_log[i].at = registration_attempts[k][j]

\* ---------------------------------------------------------------------
\* Trade type and conversion rate of an analytics request (main.py)

\* the system default rate, 5.1 %, in tenths of a percent
DefaultConversionRate10 == 51

AllText == <<"A", "L", "L">>
InterestTradeTypes == {Maemae, Jeonse, Wolse}

\* main.py lines 253-259: _normalize_interest_trade_type
normalize_interest_trade_type(raw) ==
    LET normalized == Strip(OrEmpty(raw))
    IN  IF normalized = <<>> \/ Upper(normalized) = AllText
          THEN [raised |-> "", value |-> AllText]
        ELSE IF normalized \notin InterestTradeTypes
          THEN [raised |-> "HTTPException", value |-> NoneText]
        ELSE [raised |-> "", value |-> normalized]

NoStoredSetting == [present |-> FALSE]

\* the conversion rate chosen at main.py lines 281-284
ResolvedRate10(requested_rate10, setting) ==
    IF requested_rate10 # None THEN requested_rate10
    ELSE IF setting.present /\ setting.monthly_rent_conversion_rate_pct # None
      THEN setting.monthly_rent_conversion_rate_pct
    ELSE DefaultConversionRate10

\* the stored preference read before the request's own value
TradeTypePreferenceFirst(requested, setting) ==
    LET preferred == IF setting.present
                       THEN normalize_interest_trade_type(setting.interest_trade_type).value
                       ELSE AllText
    IN  IF preferred # AllText THEN preferred
        ELSE IF requested # NoneText THEN requested
        ELSE Maemae

\* main.py lines 269-279 and 286-288: the trade type of the request, else
\* the stored preference unless it is ALL, else sale
ResolvedTradeType(requested, setting) ==
    IF requested # NoneText THEN requested
    ELSE IF setting.present
              /\ normalize_interest_trade_type(setting.interest_trade_type).value # AllText
      THEN normalize_interest_trade_type(setting.interest_trade_type).value
    ELSE Maemae

\* main.py lines 262-296: _resolve_trade_type_and_conversion; the setting
\* is the row of the user, absent without a user or before its creation
resolve_trade_type_and_conversion(requested_trade_type_name, requested_rate10, setting) ==
    LET resolved_trade_type_name == normalize_trade_type_name(requested_trade_type_name)
        consults == resolved_trade_type_name = NoneText /\ setting.present
        rate10 == ResolvedRate10(requested_rate10, setting)
    IN  IF consults /\ normalize_interest_trade_type(setting.interest_trade_type).raised # ""
          THEN [status |-> 400, detail |-> "Invalid interest_trade_type"]
        ELSE IF rate10 < 1 \/ rate10 > 300
          THEN [status |-> 400, detail |-> "Invalid monthly_conversion_rate_pct"]
        ELSE [status |-> 200,
              trade_type_name |-> ResolvedTradeType(resolved_trade_type_name, setting),
              rate10 |-> rate10]

\* the values of the trade_type_name query parameter
RequestedTradeTypes ==
    {NoneText, <<>>, <<" ">>, AllText, <<" ", "a", "l", "l">>,
     Maemae, Jeonse, Wolse, <<" ">> \o Wolse \o <<" ">>}

\* the values of the monthly_conversion_rate_pct query parameter
RequestedRates10 == {None, 0, 1, 58, 300, 301}

\* main.py lines 1522-1532: the rows a settings update can have stored
StoredSettings ==
    {NoStoredSetting} \cup
    [present : {TRUE},
     interest_trade_type : {AllText, Maemae, Jeonse, Wolse},
     monthly_rent_conversion_rate_pct : {None, 42}]

ResolveInit ==
    /\ IngestInit
    /\ PriceIdle
    /\ BargainIdle
    /\ AlertIdle
    /\ ServiceIdle

\* main.py lines 570-600 and the other analytics handlers: the request
\* resolves its trade type and rate before it reads any listing
analytics_request_resolved ==
    /\ api_call = NoRequest
    /\ \E requested \in RequestedTradeTypes, rate10 \in RequestedRates10,
          setting \in StoredSettings :
          api_call' = [op |-> "analytics",
                       requested_trade_type_name |-> requested,
                       requested_rate10 |-> rate10,
                       setting |-> setting,
                       result |-> resolve_trade_type_and_conversion(requested, rate10, setting)]
    /\ UNCHANGED <<registration_attempts, register_threads, register_log, auth_refresh_tokens>>
    /\ UNCHANGED <<ingestVars, priceVars, bargainVars, alertVars, tickVars>>

\* the analytics response has gone out
analytics_response_sent ==
    /\ api_call # NoRequest
    /\ api_call' = NoRequest
    /\ UNCHANGED <<registration_attempts, register_threads, register_log, auth_refresh_tokens>>
    /\ UNCHANGED <<ingestVars, priceVars, bargainVars, alertVars, tickVars>>

NextResolve ==
    \/ analytics_request_resolved
    \/ analytics_response_sent

SpecResolve == ResolveInit /\ [][NextResolve]_vars

\* the request names a trade type: its parameter is neither absent nor
\* blank nor the ALL sentinel that stands for "no trade type chosen"
NamesTradeType(requested) ==
    /\ requested # NoneText
    /\ requested \notin {<<>>, <<" ">>, AllText, <<" ", "a", "l", "l">>}

\* the trade type the stored preference selects, ALL when it selects none
PreferredTradeType(setting) ==
    IF setting.present THEN setting.interest_trade_type ELSE AllText

\* C26: the trade type and the rate of an analytics request are the
\* request's own value when it gives one, else the stored preference of
\* the requesting user when it selects one, else the default (sale, the
\* system default rate); a value of the request always overrides the
\* preference, and the request is refused exactly when the rate so chosen
\* lies outside 0.1 .. 30 percent.
C26_RequestThenPreferenceThenDefault ==
    (api_call # NoRequest /\ api_call.op = "analytics") =>
        LET requested == api_call.requested_trade_type_name
            setting == api_call.setting
            result == api_call.result
            trade_type == IF NamesTradeType(requested)
                            THEN SelectSeq(requested, LAMBDA c : c # " ")
                          ELSE IF PreferredTradeType(setting) # AllText
                            THEN PreferredTradeType(setting)
                          ELSE Maemae
            rate10 == IF api_call.requested_rate10 # None
                        THEN api_call.requested_rate10
                      ELSE IF setting.present
                                /\ setting.monthly_rent_conversion_rate_pct # None
                        THEN setting.monthly_rent_conversion_rate_pct
                      ELSE DefaultConversionRate10
        IN  /\ result.status = 400 <=> (rate10 < 1 \/ rate10 > 300)
            /\ result.status = 200 =>
                  /\ result.trade_type_name = trade_type
                  /\ result.rate10 = rate10

\* a request for monthly rent at 5.8 % by a user who prefers jeonse at 4.2 %
C26_Witness ==
    /\ api_call # NoRequest
    /\ api_call.op = "analytics"
    /\ api_call.requested_trade_type_name = Wolse
    /\ api_call.requested_rate10 = 58
    /\ api_call.setting.present
    /\ api_call.setting.interest_trade_type = Jeonse
    /\ api_call.setting.monthly_rent_conversion_rate_pct = 42
    /\ api_call.result = [status |-> 200, trade_type_name |-> Wolse, rate10 |-> 58]

-----------------------------------------------------------------------------
(* services/alerts.py: the daily briefing, and the scheduler step that     *)
(* sends it on the first fire time of the day.                             *)

\* f"daily_briefing:{briefing_date_key}" (line 283)
briefing_dedupe_key(briefing_date_key) ==
    [kind |-> "daily_briefing", date |-> briefing_date_key]

\* AlertDispatchLog(...) of lines 305-311 and 327-333 (payload left out)
BriefingLog(user_id, channel, dedupe_key) ==
    [user_id |-> user_id, channel |-> channel, alert_type |-> "daily_briefing",
     dedupe_key |-> dedupe_key]

\* the test without its look at the log
already_sent_daily_briefing_never(log, user_id, channel, dedupe_key) == FALSE

\* lines 246-255: _already_sent_daily_briefing
already_sent_daily_briefing(log, user_id, channel, dedupe_key) ==
    \E row \in log :
        /\ row.user_id = user_id
        /\ row.channel = channel
        /\ row.alert_type = "daily_briefing"
        /\ row.dedupe_key = dedupe_key

NoBriefingSend == [attempted |-> FALSE, reason |-> "", sent |-> 0, added |-> <<>>]

\* lines 293-312 for email, 314-334 for telegram: ok is what the send
\* function returned
BriefingChannelStep(enabled, log, user_id, channel, dedupe_key, ok) ==
    IF ~enabled THEN NoBriefingSend
    ELSE IF already_sent_daily_briefing(log, user_id, channel, dedupe_key)
      THEN [attempted |-> FALSE, reason |-> "already sent", sent |-> 0, added |-> <<>>]
    ELSE [attempted |-> TRUE,
          reason |-> IF ok THEN "ok" ELSE "send failed",
          sent |-> IF ok THEN 1 ELSE 0,
          added |-> IF ok THEN <<BriefingLog(user_id, channel, dedupe_key)>> ELSE <<>>]

\* lines 258-339: dispatch_user_daily_briefing; has_data says whether
\* collect_user_daily_briefing found a complex summary
dispatch_user_daily_briefing(log, user_id, setting, briefing_date_key, has_data, email_ok, telegram_ok) ==
    LET dedupe_key == briefing_dedupe_key(briefing_date_key)
        email == BriefingChannelStep(setting.email_enabled /\ Truthy(setting.email_address),
                                     log, user_id, "email", dedupe_key, email_ok)
        telegram == BriefingChannelStep(setting.telegram_enabled /\ Truthy(setting.telegram_chat_id),
                                        log, user_id, "telegram", dedupe_key, telegram_ok)
    IN  IF ~has_data
        THEN [email_sent |-> 0, telegram_sent |-> 0,
              email_reason |-> "no summary data", telegram_reason |-> "no summary data",
              has_data |-> FALSE, added |-> <<>>]
        ELSE [email_sent |-> email.sent, telegram_sent |-> telegram.sent,
              email_reason |-> email.reason, telegram_reason |-> telegram.reason,
              has_data |-> TRUE, added |-> email.added \o telegram.added]

\* the order of str on the characters of a fire time
CharRank(c) == IF IsDigitChar(c) THEN DigitVal(c) ELSE IF c = ":" THEN 10 ELSE 11

\* a < b for two texts of the same length
TextLess(a, b) ==
    \E i \in 1..Len(a) :
        /\ CharRank(a[i]) < CharRank(b[i])
        /\ \A j \in 1..(i - 1) : a[j] = b[j]

\* the earliest of the configured fire times
FirstTime(times) == CHOOSE t \in times : \A u \in times : u = t \/ TextLess(t, u)

\* the users with an enabled watch
BriefingWatcherIds(rows) == Ascending({w.user_id : w \in {r \in rows : r.enabled}})

\* the users the briefing step passes over
SkipsBriefingUser(user, setting) ==
    \/ ~user.present
    \/ ~user.is_active
    \/ ~setting.present

\* the briefing of each watcher in turn, committed when something was sent
RECURSIVE BriefUsers(_, _, _, _, _, _)
BriefUsers(user_ids, log, user_rows, setting_rows, briefing_date_key, outcomes) ==
    IF user_ids = <<>> THEN [log |-> log, calls |-> <<>>]
    ELSE LET user_id == Head(user_ids)
             o == outcomes[user_id]
             skipped == SkipsBriefingUser(user_rows[user_id], setting_rows[user_id])
             out == dispatch_user_daily_briefing(log, user_id, setting_rows[user_id],
                                                 briefing_date_key,
                                                 o.has_data, o.email_ok, o.telegram_ok)
             after == IF ~skipped /\ (out.email_sent > 0 \/ out.telegram_sent > 0)
                      THEN log \cup {out.added[i] : i \in 1..Len(out.added)}
                      ELSE log
             rest == BriefUsers(Tail(user_ids), after, user_rows, setting_rows,
                                briefing_date_key, outcomes)
         IN  [log |-> rest.log,
              calls |-> (IF skipped THEN <<>>
                         ELSE <<[user_id |-> user_id, out |-> out]>>) \o rest.calls]

\* CrawlScheduler._dispatch_daily_briefings_for_first_time(db, timezone,
\* hhmm, times): nothing unless hhmm is the earliest configured time
dispatch_daily_briefings_for_first_time(log, watch_rows, user_rows, setting_rows, local, hhmm, times, outcomes) ==
    IF times = {} \/ hhmm # FirstTime(times) THEN [log |-> log, calls |-> <<>>]
    ELSE BriefUsers(BriefingWatcherIds(watch_rows), log, user_rows, setting_rows,
                    local \div 1440, outcomes)

\* what the summary query and the two send functions give for one user
BriefingOutcomes ==
    {[has_data |-> FALSE, email_ok |-> TRUE, telegram_ok |-> TRUE],
     [has_data |-> TRUE, email_ok |-> TRUE, telegram_ok |-> TRUE],
     [has_data |-> TRUE, email_ok |-> TRUE, telegram_ok |-> FALSE],
     [has_data |-> TRUE, email_ok |-> FALSE, telegram_ok |-> TRUE]}

BothChannels ==
    [present |-> TRUE, bargain_alert_enabled |-> FALSE,
     email_enabled |-> TRUE, email_address |-> <<"m">>,
     telegram_enabled |-> TRUE, telegram_chat_id |-> <<"c">>]

\* three watchers of complex 1: an active user with both channels, an
\* inactive user, an active user with email only
BriefingInit ==
    /\ IngestInit
    /\ PriceIdle
    /\ BargainIdle
    /\ AlertIdle
    /\ ApiIdle
    /\ executed_keys = {}
    /\ scheduler_config = NoRow
    /\ watches = {WatchRow(AlertUser, 1, TRUE), WatchRow(OtherUser, 1, TRUE),
                  WatchRow(ThirdUser, 1, TRUE), WatchRow(AlertUser, 2, TRUE)}
    /\ users = (AlertUser :> [present |-> TRUE, is_active |-> TRUE])
                  @@ (OtherUser :> [present |-> TRUE, is_active |-> FALSE])
                  @@ (ThirdUser :> [present |-> TRUE, is_active |-> TRUE])
    /\ notification_settings = (AlertUser :> BothChannels) @@ (OtherUser :> BothChannels)
                                  @@ (ThirdUser :> EmailOnly)
    /\ batch = NoBatch
    /\ fired = <<>>
    /\ last_tick = NoTick

\* the (user, channel, date) of the briefings a step sent
BriefingsSent(calls) ==
    UNION {{[user_id |-> calls[i].user_id, channel |-> calls[i].out.added[j].channel,
             date |-> calls[i].out.added[j].dedupe_key.date] :
                j \in 1..Len(calls[i].out.added)} : i \in 1..Len(calls)}

\* scheduler.py _run_if_due on a configured fire time (lines 116-135), as far
\* as the briefing goes; the scheduler may have been restarted since its
\* last tick, so the keys it holds do not bound the ticks
run_if_due_briefing ==
    /\ last_dispatch = NoDispatch
    /\ last_tick = NoTick
    /\ batch = NoBatch
    /\ LET config == load_runtime_config(scheduler_config, watches, settings_window)
           local == LocalNow(now, ResolveZone(config.timezone))
           hhmm == strftime_hhmm(local)
       IN  /\ config.enabled
           /\ config.complex_nos # <<>>
           /\ hhmm \in config.times
           /\ \E outcomes \in [DOMAIN users -> BriefingOutcomes] :
                 LET run == dispatch_daily_briefings_for_first_time(
                                alert_log, watches, users, notification_settings,
                                local, hhmm, config.times, outcomes)
                 IN  /\ alert_log' = run.log
                     /\ delivered' = delivered (+) SetToBag(BriefingsSent(run.calls))
                     /\ last_dispatch' = [entry |-> "briefing", hhmm |-> hhmm,
                                          times |-> config.times,
                                          date |-> local \div 1440,
                                          calls |-> run.calls,
                                          log_before |-> alert_log]
    /\ UNCHANGED <<dispatchers, send_failed>>
    /\ UNCHANGED <<ingestVars, priceVars, bargainVars, tickVars, apiVars>>

briefing_returned ==
    /\ last_dispatch # NoDispatch
    /\ last_dispatch' = NoDispatch
    /\ UNCHANGED <<alert_log, dispatchers, delivered, send_failed>>
    /\ UNCHANGED <<ingestVars, priceVars, bargainVars, tickVars, apiVars>>

NextBriefing ==
    \/ clock_advance
    \/ put_scheduler_config
    \/ run_if_due_briefing
    \/ briefing_returned

SpecBriefing == BriefingInit /\ [][NextBriefing]_vars

BriefingStep == last_dispatch # NoDispatch /\ last_dispatch.entry = "briefing"

-----------------------------------------------------------------------------
(* main.py: the requests of PUT /scheduler/config, one after another       *)

\* the bodies the requests carry
PutTimezones == {<<" ">> \o Seoul \o <<" ">>, LosAngeles, <<"Mars/Base">>, <<>>}

PutTimesCsv ==
    {Text0900,
     Text1800 \o <<",", " ">> \o Text0900 \o <<",">> \o Text0900,
     <<"2", "4", ":", "0", "0", ",", "9", ":", "0", "0">>,
     <<>>,
     <<"2", "3", ":", "5", "9", ",", "x", ",">> \o Text0000}

PutPollSeconds == {4, 5, 300, 301}
PutReuseBucketHours == {0 - 1, 0, 3, 6, 12, 24, 25}

ConfigInit ==
    /\ IngestInit
    /\ PriceIdle
    /\ BargainIdle
    /\ AlertIdle
    /\ ServiceIdle

\* main.py lines 449-501
scheduler_config_put ==
    /\ api_call = NoRequest
    /\ \E enabled \in BOOLEAN, timezone \in PutTimezones, times_csv \in PutTimesCsv,
          poll_seconds \in PutPollSeconds, reuse_bucket_hours \in PutReuseBucketHours :
          LET out == scheduler_config_update(scheduler_config, enabled, timezone, times_csv,
                                             poll_seconds, reuse_bucket_hours)
          IN  /\ scheduler_config' = out.row
              /\ api_call' = [op |-> "put_scheduler_config",
                              timezone |-> timezone, times_csv |-> times_csv,
                              poll_seconds |-> poll_seconds,
                              reuse_bucket_hours |-> reuse_bucket_hours,
                              status |-> out.status,
                              row_before |-> scheduler_config]
    /\ UNCHANGED <<executed_keys, watches, users, notification_settings, batch, fired, last_tick>>
    /\ UNCHANGED <<registration_attempts, register_threads, register_log, auth_refresh_tokens>>
    /\ UNCHANGED <<ingestVars, priceVars, bargainVars, alertVars>>

\* the response of the request has gone out
scheduler_config_answered ==
    /\ api_call # NoRequest
    /\ api_call' = NoRequest
    /\ UNCHANGED <<registration_attempts, register_threads, register_log, auth_refresh_tokens>>
    /\ UNCHANGED <<ingestVars, priceVars, bargainVars, alertVars, tickVars>>

NextConfig ==
    \/ scheduler_config_put
    \/ scheduler_config_answered

SpecConfig == ConfigInit /\ [][NextConfig]_vars

\* the text is HH:MM with two digits each, an hour of the day and a minute
IsFireTime(text) ==
    /\ Len(text) = 5
    /\ text[3] = ":"
    /\ \A i \in {1, 2, 4, 5} : IsDigitChar(text[i])
    /\ 10 * DigitVal(text[1]) + DigitVal(text[2]) <= 23
    /\ 10 * DigitVal(text[4]) + DigitVal(text[5]) <= 59

MinuteOfDay(text) ==
    60 * (10 * DigitVal(text[1]) + DigitVal(text[2])) + 10 * DigitVal(text[4]) + DigitVal(text[5])

StoredConfigIsValid(row) ==
    LET times == SplitCommas(row.times_csv)
    IN  /\ row.reuse_bucket_hours \in {0, 6, 12, 24}
        /\ row.poll_seconds >= 5 /\ row.poll_seconds <= 300
        /\ row.timezone \in KnownZones
        /\ Len(times) >= 1
        /\ \A i \in 1..Len(times) : IsFireTime(times[i])
        /\ \A i \in 1..Len(times), j \in 1..Len(times) :
              i < j => MinuteOfDay(times[i]) < MinuteOfDay(times[j])

PutAnswered == api_call # NoRequest /\ api_call.op = "put_scheduler_config"

\* C28: after any sequence of scheduler-config update requests, a rejected
\* request leaves the stored configuration unchanged, and an accepted one
\* stores a reuse bucket width in {0,6,12,24}, a poll interval in [5,300],
\* a valid timezone and a non-empty, sorted, duplicate-free list of valid
\* HH:MM fire times.
C28_StoredConfigStaysValid ==
    /\ (PutAnswered /\ api_call.status # 200) => scheduler_config = api_call.row_before
    /\ (PutAnswered /\ api_call.status = 200) =>
          /\ scheduler_config.present
          /\ scheduler_config.reuse_bucket_hours = api_call.reuse_bucket_hours
          /\ scheduler_config.poll_seconds = api_call.poll_seconds
    /\ scheduler_config.present => StoredConfigIsValid(scheduler_config)

\* a request with unordered, repeated fire times and a padded timezone is
\* accepted over an earlier configuration
C28_Witness ==
    /\ PutAnswered
    /\ api_call.row_before.present
    /\ api_call.status = 200
    /\ api_call.times_csv = Text1800 \o <<",", " ">> \o Text0900 \o <<",">> \o Text0900
    /\ scheduler_config.times_csv = Text0900 \o <<",">> \o Text1800
    /\ scheduler_config.timezone = Seoul
    /\ scheduler_config # api_call.row_before

-----------------------------------------------------------------------------
(* services/analytics.py: fetch_complex_trend, the daily price series of   *)
(* one complex.                                                            *)

\* the listings that may be stored: the complex, what was listed and when
\* (minutes since 00:00 UTC of day 0; the call is made at 00:00 of day 3)
TrendCandidates ==
    << <<1, Sale50000, 1439>>, <<1, Sale50000, 1440>>, <<1, Sale45000, 1500>>,
       <<1, Rent30000, 2000>>, <<1, SaleUnpriced, 2900>>, <<2, Sale45000, 2950>>,
       <<1, Rent30000, 3000>>, <<1, Sale45000, 4000>> >>

\* the row ingestion stores for the k-th candidate
TrendRowOf(k) ==
    Flush(<<NewListing(1, TrendCandidates[k][1], k, TrendCandidates[k][2],
                       TrendCandidates[k][3])>>, TrendCandidates[k][3])[1]

\* the databases that hold some of the candidates, in INSERT order
TrendDatabases ==
    {[i \in 1..Cardinality(S) |-> TrendRowOf(Ascending(S)[i])] :
        S \in SUBSET (1..Len(TrendCandidates))}

TrendQueries ==
    [complex_no : {1},
     days : {1, 2, 3},
     trade_type_name : {NoneText, <<"a", "l", "l">>, Maemae, <<" ">> \o Wolse},
     rate10 : {0, 51},
     scan : {"forward", "backward"}]

\* the rows in the order the SELECT without ORDER BY returns them
Scanned(snaps, scan) ==
    IF scan = "forward" THEN snaps
    ELSE [i \in 1..Len(snaps) |-> snaps[Len(snaps) + 1 - i]]

\* lines 54-66: the rows of the query
TrendRows(snaps, complex_no, since, normalized) ==
    SelectSeq(snaps, LAMBDA row :
        /\ row.complex_no = complex_no
        /\ row.observed_at >= since
        /\ (normalized = NoneText \/ row.trade_type_name = normalized))

\* row.observed_at.date(): the calendar day (UTC)
DateOf(row) == row.observed_at \div 1440

\* the date keys in the order the rows were read
RECURSIVE DateKeysAsRead(_)
DateKeysAsRead(rows) ==
    IF rows = <<>> THEN <<>>
    ELSE LET rest == DateKeysAsRead(Tail(rows))
         IN  <<DateOf(Head(rows))>> \o SelectSeq(rest, LAMBDA d : d # DateOf(Head(rows)))

\* sorted(prices_by_date.keys()) (line 83)
SortedDateKeys(rows) == Ascending({DateOf(rows[i]) : i \in 1..Len(rows)})

\* sum(prices) / len(prices)
Average(prices) ==
    LET total == RatSum(prices)
    IN  Rat(total.num, total.den * Len(prices))

\* lines 84-93: the dictionary of one date
TrendPoint(date_key, prices) ==
    [date |-> date_key,
     avg_price_manwon |-> Round(Average(prices), 100),
     min_price_manwon |-> Round(SortedPrices(prices)[1], 100),
     max_price_manwon |-> Round(SortedPrices(prices)[Len(prices)], 100),
     listing_count |-> Len(prices)]

\* lines 43-94.  snaps are the stored rows as the query reads them, t is
\* the time of the call; amounts are in hundredths of manwon
fetch_complex_trend(snaps, complex_no, days, trade_type_name, rate10, t) ==
    LET since == t - days * 1440
        normalized_trade_type == normalize_trade_type_name(trade_type_name)
        rows == TrendRows(snaps, complex_no, since, normalized_trade_type)
        priced == SelectSeq(rows, LAMBDA row : ~EffectivePriceOf(row, rate10).none)
        keys == SortedDateKeys(priced)
        PricesOn(d) ==
            LET on == SelectSeq(priced, LAMBDA row : DateOf(row) = d)
            IN  [i \in 1..Len(on) |-> EffectivePriceOf(on[i], rate10)]
    IN  [i \in 1..Len(keys) |-> TrendPoint(keys[i], PricesOn(keys[i]))]

TrendInit == BargainInitOver(TrendDatabases)

fetch_complex_trend_call ==
    /\ bargain_result = NotComputed
    /\ \E q \in TrendQueries :
          /\ bargain_query' = q
          /\ bargain_result' =
                [computed |-> TRUE,
                 out |-> fetch_complex_trend(Scanned(listing_snapshots, q.scan), q.complex_no,
                                             q.days, q.trade_type_name, q.rate10, now)]
    /\ UNCHANGED <<ingestVars, priceVars, alertVars, tickVars, apiVars>>

NextTrend == fetch_complex_trend_call

SpecTrend == TrendInit /\ [][NextTrend]_vars

\* the query names a trade type: neither absent nor the ALL sentinel
TrendNamesType == bargain_query.trade_type_name \notin {NoneText, <<"a", "l", "l">>}

\* the stored listings of the complex inside the window that pass the
\* filter and have a normalizable price
TrendListings ==
    {i \in 1..Len(listing_snapshots) :
        /\ listing_snapshots[i].complex_no = bargain_query.complex_no
        /\ listing_snapshots[i].observed_at >= now - bargain_query.days * 1440
        /\ TrendNamesType =>
              listing_snapshots[i].trade_type_name
                 = SelectSeq(bargain_query.trade_type_name, LAMBDA c : c # " ")
        /\ ~EffectivePriceOf(listing_snapshots[i], bargain_query.rate10).none}

TrendListingsOn(d) == {i \in TrendListings : listing_snapshots[i].observed_at \div 1440 = d}

TrendPriceAt(i) == EffectivePriceOf(listing_snapshots[i], bargain_query.rate10)

\* the sum of the prices of the listings, as a fraction
RECURSIVE TrendTotal(_)
TrendTotal(S) ==
    IF S = {} THEN Rat(0, 1)
    ELSE LET i == CHOOSE x \in S : TRUE
             p == TrendPriceAt(i)
             rest == TrendTotal(S \ {i})
         IN  Rat(p.num * rest.den + rest.num * p.den, p.den * rest.den)

\* v is x rounded to hundredths, in hundredths
IsRounded(v, x) == Abs(2 * 100 * x.num - 2 * v * x.den) <= x.den

\* C29: fetch_complex_trend returns exactly one row per calendar date on
\* which at least one listing of the complex inside the window has a
\* normalizable price (no row for other dates), ordered by date ascending,
\* where listing_count is the number of normalizable listings of that date
\* and min <= avg <= max over exactly those prices; the 'ALL' trade-type
\* sentinel applies no filter.
C29_OneRowPerDateWithPrices ==
    (bargain_result.computed /\ "days" \in DOMAIN bargain_query) =>
        LET out == bargain_result.out
        IN  /\ {out[k].date : k \in 1..Len(out)}
                  = {listing_snapshots[i].observed_at \div 1440 : i \in TrendListings}
            /\ \A j \in 1..Len(out), k \in 1..Len(out) : j < k => out[j].date < out[k].date
            /\ \A k \in 1..Len(out) :
                  LET on == TrendListingsOn(out[k].date)
                      total == TrendTotal(on)
                  IN  /\ out[k].listing_count = Cardinality(on)
                      /\ \E i \in on : IsRounded(out[k].min_price_manwon, TrendPriceAt(i))
                      /\ \A i \in on : RatLeq(Rat(out[k].min_price_manwon * 2 - 1, 200),
                                              TrendPriceAt(i))
                      /\ \E i \in on : IsRounded(out[k].max_price_manwon, TrendPriceAt(i))
                      /\ \A i \in on : RatLeq(TrendPriceAt(i),
                                              Rat(out[k].max_price_manwon * 2 + 1, 200))
                      /\ IsRounded(out[k].avg_price_manwon,
                                   Rat(total.num, total.den * Cardinality(on)))
                      /\ out[k].min_price_manwon <= out[k].avg_price_manwon
                      /\ out[k].avg_price_manwon <= out[k].max_price_manwon

\* an unfiltered query read backwards over sales and rents of two dates,
\* with an unpriced listing and a listing outside the window left out
C29_Witness ==
    /\ bargain_result.computed
    /\ "days" \in DOMAIN bargain_query
    /\ bargain_query.trade_type_name = <<"a", "l", "l">>
    /\ bargain_query.scan = "backward"
    /\ bargain_query.days = 2
    /\ Len(listing_snapshots) = Len(TrendCandidates)
    /\ Len(bargain_result.out) = 2
    /\ bargain_result.out[1].listing_count = 3
    /\ bargain_result.out[1].min_price_manwon < bargain_result.out[1].avg_price_manwon
    /\ bargain_result.out[1].avg_price_manwon < bargain_result.out[1].max_price_manwon

-----------------------------------------------------------------------------
(* services/ingest.py: _resolve_time_bucket over times of several days     *)

\* the widths of a reuse bucket, in hours
BucketWidths == {6, 12, 24}

\* times around the bucket edges of day 0, day 1 and day 2, and 13:37 of day 1
BucketInstants ==
    {0, 1, 359, 360, 361, 719, 720, 1079, 1080, 1439,
     1440, 1441, 1799, 1800, 2159, 2160, 2257, 2519, 2520, 2879, 2880, 3600}

BucketInit ==
    /\ IngestInit
    /\ PriceIdle
    /\ BargainIdle
    /\ AlertIdle
    /\ ServiceIdle

\* ingest.py lines 13-17 for two times and one width
resolve_time_bucket_call ==
    /\ api_call = NoRequest
    /\ \E t \in BucketInstants, u \in BucketInstants, w \in BucketWidths :
          api_call' = [op |-> "resolve_time_bucket", now |-> t, other |-> u,
                       window_hours |-> w,
                       bucket |-> resolve_time_bucket(t, w),
                       other_bucket |-> resolve_time_bucket(u, w)]
    /\ UNCHANGED <<registration_attempts, register_threads, register_log, auth_refresh_tokens>>
    /\ UNCHANGED <<ingestVars, priceVars, bargainVars, alertVars, tickVars>>

resolve_time_bucket_returned ==
    /\ api_call # NoRequest
    /\ api_call' = NoRequest
    /\ UNCHANGED <<registration_attempts, register_threads, register_log, auth_refresh_tokens>>
    /\ UNCHANGED <<ingestVars, priceVars, bargainVars, alertVars, tickVars>>

NextBucket ==
    \/ resolve_time_bucket_call
    \/ resolve_time_bucket_returned

SpecBucket == BucketInit /\ [][NextBucket]_vars

BucketResolved == api_call # NoRequest /\ api_call.op = "resolve_time_bucket"

\* C30: for every time `now` and every window width w in {6,12,24},
\* _resolve_time_bucket returns (start, end) with start <= now < end,
\* end - start = w hours, start on the same calendar day as now at an hour
\* that is a multiple of w with zero minutes and seconds; two times map to
\* the same bucket exactly when they lie in the same such interval.
C30_BucketIsTheAlignedInterval ==
    BucketResolved =>
        LET start == api_call.bucket.bucket_start
            end == api_call.bucket.bucket_end
            w == api_call.window_hours
        IN  /\ start <= api_call.now /\ api_call.now < end
            /\ end - start = w * 60
            /\ start \div 1440 = api_call.now \div 1440
            /\ (start % 1440) % 60 = 0
            /\ ((start % 1440) \div 60) % w = 0
            /\ (api_call.other_bucket = api_call.bucket)
                  <=> (start <= api_call.other /\ api_call.other < end)

\* 13:37 and 17:59 of day 1 share the 6-hour bucket from 12:00 to 18:00
C30_Witness ==
    /\ BucketResolved
    /\ api_call.now = 2257
    /\ api_call.other = 2519
    /\ api_call.window_hours = 6
    /\ api_call.bucket = [bucket_start |-> 2160, bucket_end |-> 2520]
    /\ api_call.other_bucket = api_call.bucket

-----------------------------------------------------------------------------
(* services/ingest.py: the page loop of a fresh ingest, from any first page *)

\* what the listing source holds on its pages 1 .. MaxPages + 2
PagedUpstreams == [1..(MaxPages + 2) -> PageOutcomes]

\* POST /crawler/ingest/{complex_no} with page and max_pages, reuse off
ingest_pages ==
    /\ next_run_id = 1
    /\ last_call = NoCall
    /\ \E c \in Complexes, page \in 1..2, max_pages \in 1..(MaxPages + 1),
          upstream \in PagedUpstreams :
          LET out == ingest_complex_snapshot(Database, EmptySession, c, page, max_pages,
                         ResolveReuseWindow(0, settings_window), NoRun, upstream, now)
          IN  /\ StoreDatabase(out.db)
              /\ last_call' = Recorded(c, page, max_pages, 0, upstream, out)
    /\ UNCHANGED <<now, settings_window, watch_ingest, scheduler, failed_in_scheduler>>

NextPages ==
    \/ Tick /\ UNCHANGED <<priceVars, bargainVars, alertVars, tickVars, apiVars>>
    \/ ingest_pages /\ UNCHANGED <<priceVars, bargainVars, alertVars, tickVars, apiVars>>
    \/ call_returned /\ UNCHANGED <<priceVars, bargainVars, alertVars, tickVars, apiVars>>

SpecPages == Init /\ [][NextPages]_vars

HasListings(answer) == ~answer.raises /\ Len(ArticleListOf(answer)) > 0

\* C31: a fresh ingest requests pages in increasing order starting at
\* `page`, makes at most max_pages upstream requests, requests no page after
\* the first page that returned zero listings, and reports pages_fetched as
\* the number of non-empty pages processed.
C31_PagesInOrderUntilTheFirstEmptyOne ==
    Called =>
        LET n == Len(last_call.fetches)
        IN  /\ n >= 1 /\ n <= last_call.max_pages
            /\ \A i \in 1..n : last_call.fetches[i] = last_call.page + i - 1
            /\ \A i \in 1..(n - 1) : HasListings(last_call.answers[i])
            /\ last_call.raised = "" =>
                  /\ last_call.result.pages_fetched
                        = Cardinality({i \in 1..n : HasListings(last_call.answers[i])})
                  /\ n < last_call.max_pages => NoListings(last_call.answers[n])

\* a call for three pages from page 2 on that found page 3 empty
C31_Witness ==
    /\ Called
    /\ last_call.page = 2
    /\ last_call.max_pages = 3
    /\ last_call.fetches = <<2, 3>>
    /\ NoListings(last_call.answers[2])
    /\ last_call.raised = ""
    /\ last_call.result.pages_fetched = 1

-----------------------------------------------------------------------------
(* Overlapping ingestions of one complex (the scheduler's and a manual     *)
(* one, each in its own session) and the run detect_bargains reads.        *)

OverlapComplex == 1

\* the last minute of the scenario
OverlapEnd == 789

\* what the listing source answers the run: two listings at 50000 and one
\* that is cheaper the later the run was created
OverlapArticles(run_id) ==
    <<SaleArticle(StrNo(<<"7">>), <<"5", "eok">>),
      SaleArticle(StrNo(<<"8">>), <<"5", "eok">>),
      SaleArticle(StrNo(<<"9">>), <<"4", "eok", " ", Digits[7 - run_id], ",", "0", "0", "0">>)>>

\* ingest.py lines 74-76 and 82-126: the run is flushed (started_at takes
\* its server default) and its rows are pending in the session
OverlapSession(run_id, t) ==
    [new_runs |-> {[id |-> run_id, complex_no |-> OverlapComplex, status |-> "SUCCESS",
                    started_at |-> t, completed_at |-> None]},
     new_listings |-> [i \in 1..3 |-> NewListing(run_id, OverlapComplex, 6 + i,
                                                OverlapArticles(run_id)[i], t)]]

Ingesting(entry) == IF entry = "scheduler" THEN scheduler ELSE watch_ingest

SetIngesting(entry, value) ==
    IF entry = "scheduler"
    THEN scheduler' = value /\ UNCHANGED watch_ingest
    ELSE watch_ingest' = value /\ UNCHANGED scheduler

overlap_clock ==
    /\ bargain_result = NotComputed
    /\ now < OverlapEnd
    /\ now' = now + 1
    /\ UNCHANGED <<settings_window, crawl_runs, listing_snapshots, next_run_id,
                   watch_ingest, scheduler, last_call, failed_in_scheduler>>
    /\ UNCHANGED <<priceVars, bargainVars, alertVars, tickVars, apiVars>>

\* ingest_complex_snapshot up to the end of its page loop
overlap_begin ==
    /\ bargain_result = NotComputed
    /\ next_run_id <= MaxRunId
    /\ \E entry \in {"scheduler", "manual"} :
          /\ ~Ingesting(entry).active
          /\ SetIngesting(entry, [Idle EXCEPT !.active = TRUE,
                                              !.sess = OverlapSession(next_run_id, now)])
    /\ next_run_id' = next_run_id + 1
    /\ UNCHANGED <<now, settings_window, crawl_runs, listing_snapshots, last_call,
                   failed_in_scheduler>>
    /\ UNCHANGED <<priceVars, bargainVars, alertVars, tickVars, apiVars>>

\* lines 128-129: completed_at is stamped and the session commits
overlap_commit ==
    /\ bargain_result = NotComputed
    /\ \E entry \in {"scheduler", "manual"} :
          /\ Ingesting(entry).active
          /\ LET sess == Ingesting(entry).sess
                 done == Commit(Database, {CompleteRun(r, now) : r \in sess.new_runs},
                                sess.new_listings, now)
             IN  /\ crawl_runs' = done.db.crawl_runs
                 /\ listing_snapshots' = done.db.listing_snapshots
          /\ SetIngesting(entry, Idle)
    /\ UNCHANGED <<now, settings_window, next_run_id, last_call, failed_in_scheduler>>
    /\ UNCHANGED <<priceVars, bargainVars, alertVars, tickVars, apiVars>>

\* a later page failed: the caller rolls the session back
overlap_abort ==
    /\ bargain_result = NotComputed
    /\ \E entry \in {"scheduler", "manual"} :
          /\ Ingesting(entry).active
          /\ SetIngesting(entry, Idle)
    /\ UNCHANGED <<now, settings_window, crawl_runs, listing_snapshots, next_run_id,
                   last_call, failed_in_scheduler>>
    /\ UNCHANGED <<priceVars, bargainVars, alertVars, tickVars, apiVars>>

OverlapQuery ==
    [complex_no |-> OverlapComplex, lookback_days |-> 1,
     discount_threshold |-> Threshold8Pct, trade_type_name |-> NoneText, rate10 |-> 51]

\* detect_bargains in a session of its own, over what is committed
overlap_detect ==
    /\ bargain_result = NotComputed
    /\ \E latest_run \in LatestRunChoices(crawl_runs, OverlapComplex) :
          /\ bargain_query' = OverlapQuery
          /\ bargain_result' =
                [computed |-> TRUE,
                 latest_run |-> latest_run,
                 candidates |-> Candidates(listing_snapshots, latest_run.id, NoneText),
                 out |-> detect_bargains(Database, OverlapComplex, OverlapQuery.lookback_days,
                             OverlapQuery.discount_threshold, OverlapQuery.trade_type_name,
                             OverlapQuery.rate10, latest_run, now)]
    /\ UNCHANGED <<ingestVars, priceVars, alertVars, tickVars, apiVars>>

overlap_detected ==
    /\ bargain_result # NotComputed
    /\ bargain_query' = NotComputed
    /\ bargain_result' = NotComputed
    /\ UNCHANGED <<ingestVars, priceVars, alertVars, tickVars, apiVars>>

NextOverlap ==
    \/ overlap_clock
    \/ overlap_begin
    \/ overlap_commit
    \/ overlap_abort
    \/ overlap_detect
    \/ overlap_detected

SpecOverlap == Init /\ [][NextOverlap]_vars

CommittedSuccessRuns ==
    {r \in crawl_runs : r.complex_no = OverlapComplex /\ r.status = "SUCCESS"}

\* C32: when several ingestions of the same complex overlap, the candidates
\* evaluated by detect_bargains come from exactly one run, the committed
\* SUCCESS run with the greatest start time, whichever run was requested or
\* completed last; listings of two runs are never mixed in the candidate
\* set.
C32_CandidatesOfTheLatestStartedRun ==
    bargain_result.computed =>
        /\ CommittedSuccessRuns = {} =>
              bargain_result.candidates = <<>> /\ bargain_result.out.items = <<>>
        /\ CommittedSuccessRuns # {} =>
              \E r \in CommittedSuccessRuns :
                  /\ \A q \in CommittedSuccessRuns : q.started_at <= r.started_at
                  /\ \A i \in 1..Len(bargain_result.candidates) :
                        bargain_result.candidates[i].crawl_run_id = r.id
                  /\ Len(bargain_result.candidates) = Cardinality(RowsOfRun(r.id))
                  /\ \A k \in 1..Len(bargain_result.out.items) :
                        \E i \in RowsOfRun(r.id) :
                            /\ listing_snapshots[i].article_no
                                  = bargain_result.out.items[k].article_no
                            /\ listing_snapshots[i].deal_price_manwon
                                  = bargain_result.out.items[k].deal_price_manwon
                            /\ listing_snapshots[i].observed_at
                                  = bargain_result.out.items[k].observed_at

\* the run that started later completed first; its cheap listing is the
\* one flagged after the other run completed
C32_Witness ==
    /\ bargain_result.computed
    /\ \E a \in crawl_runs, b \in crawl_runs :
          /\ a.started_at < b.started_at
          /\ b.completed_at < a.completed_at
          /\ bargain_result.latest_run = b
    /\ Len(bargain_result.candidates) = 3
    /\ Len(bargain_result.out.items) = 1
    /\ bargain_result.out.items[1].deal_price_manwon = 44000

-----------------------------------------------------------------------------
(* models.py, AlertDispatchLog: the rows of alert_dispatch_logs with their *)
(* primary key, written by two dispatches that each hold a session.        *)

\* the four columns of uq_alert_dispatch_dedupe (models.py line 183)
DedupeColumns(row) == <<row.user_id, row.channel, row.alert_type, row.dedupe_key>>

\* a stored row without its primary key
WithoutId(row) ==
    [user_id |-> row.user_id, channel |-> row.channel, alert_type |-> row.alert_type,
     dedupe_key |-> row.dedupe_key]

\* id, autoincrement (models.py line 186)
WithId(row, id) ==
    [id |-> id, user_id |-> row.user_id, channel |-> row.channel,
     alert_type |-> row.alert_type, dedupe_key |-> row.dedupe_key]

NextLogId(log) ==
    IF log = {} THEN 1
    ELSE 1 + (CHOOSE id \in {row.id : row \in log} : \A row \in log : row.id <= id)

\* the caller's `if email_sent or telegram_sent: db.commit()`: the INSERTs of
\* the session's pending rows under the unique constraint; a rejected INSERT
\* raises IntegrityError and the transaction stores none of its rows
log_commit ==
    \E d \in Entries :
        /\ dispatchers[d].pc = "commit"
        /\ last_dispatch = NoDispatch
        /\ LET added == dispatchers[d].added
               committing == dispatchers[d].sent > 0
               commit == CommitLogs({WithoutId(row) : row \in alert_log}, added)
               first_id == NextLogId(alert_log)
           IN  /\ alert_log' =
                     IF committing /\ commit.ok
                     THEN alert_log \cup {WithId(added[i], first_id + i - 1) : i \in 1..Len(added)}
                     ELSE alert_log
               /\ last_dispatch' =
                     [entry |-> d,
                      log_before |-> alert_log,
                      added |-> added,
                      committing |-> committing,
                      raised |-> IF committing /\ ~commit.ok THEN "IntegrityError" ELSE ""]
        /\ dispatchers' = [dispatchers EXCEPT ![d] = NoDispatcher]
        /\ UNCHANGED <<delivered, send_failed>>

log_commit_returned ==
    /\ last_dispatch # NoDispatch
    /\ last_dispatch' = NoDispatch
    /\ UNCHANGED <<alert_log, dispatchers, delivered, send_failed>>

NextLogRace ==
    \/ race_begin /\ UNCHANGED <<ingestVars, priceVars, bargainVars, tickVars, apiVars>>
    \/ race_email /\ UNCHANGED <<ingestVars, priceVars, bargainVars, tickVars, apiVars>>
    \/ race_telegram /\ UNCHANGED <<ingestVars, priceVars, bargainVars, tickVars, apiVars>>
    \/ log_commit /\ UNCHANGED <<ingestVars, priceVars, bargainVars, tickVars, apiVars>>
    \/ log_commit_returned /\ UNCHANGED <<ingestVars, priceVars, bargainVars, tickVars, apiVars>>

SpecLogRace == Init /\ [][NextLogRace]_vars

\* a commit of a dispatch has just ended
LogCommitEnded == last_dispatch # NoDispatch /\ last_dispatch.committing

\* the commit met a row of the log, or carried two rows, with the same
\* (user, channel, alert type, dedupe key)
CommitClashed ==
    \/ \E i \in 1..Len(last_dispatch.added) :
          \E row \in last_dispatch.log_before :
              DedupeColumns(row) = DedupeColumns(last_dispatch.added[i])
    \/ \E i, j \in 1..Len(last_dispatch.added) :
          i # j /\ DedupeColumns(last_dispatch.added[i]) = DedupeColumns(last_dispatch.added[j])

\* C33: when two dispatches on sessions of their own both try to log the
\* same (user, channel, alert type, dedupe key), the committed log never holds
\* two rows with these four columns equal; the commit that comes second fails
\* as a whole, storing none of its rows, and the log stays as the first
\* writer left it, while a commit that meets no such row stores all its rows.
C33_OneRowPerDedupeKey ==
    /\ \A r1, r2 \in alert_log : DedupeColumns(r1) = DedupeColumns(r2) => r1 = r2
    /\ LogCommitEnded =>
          IF CommitClashed
          THEN /\ last_dispatch.raised = "IntegrityError"
               /\ alert_log = last_dispatch.log_before
          ELSE /\ last_dispatch.raised = ""
               /\ {DedupeColumns(row) : row \in alert_log} =
                     {DedupeColumns(row) : row \in last_dispatch.log_before}
                        \cup {DedupeColumns(last_dispatch.added[i]) :
                                 i \in 1..Len(last_dispatch.added)}

\* C33 witness: a dispatch that had sent on both channels commits after the
\* other dispatch stored the email row of the same listing event: its commit
\* raises, and its telegram row, which no stored row matches, is not stored
\* either.
C33_Witness ==
    /\ LogCommitEnded
    /\ last_dispatch.raised = "IntegrityError"
    /\ Len(last_dispatch.added) = 2
    /\ alert_log = last_dispatch.log_before
    /\ Cardinality(alert_log) = 1
    /\ \E i \in 1..2 : \A row \in alert_log :
          DedupeColumns(row) # DedupeColumns(last_dispatch.added[i])
    /\ \E i \in 1..2 : \E row \in alert_log :
          DedupeColumns(row) = DedupeColumns(last_dispatch.added[i])

-----------------------------------------------------------------------------
\* the tick added its key and went on to the batch
TickActed == last_tick.made /\ last_tick.started

\* the keys of the local date of the tick
KeysOfToday(keys) == {key \in keys : key.date = last_tick.run_key.date}

\* C34 as stated: after every tick that acts on a fire key, the set of
\* executed keys holds only keys of the current day in the configured
\* timezone, and it still holds the key just acted on.
C34_OnlyKeysOfTheCurrentDay ==
    TickActed =>
        /\ last_tick.run_key \in executed_keys
        /\ executed_keys = KeysOfToday(executed_keys)

\* C34 (amended): after every tick that acts on a fire key the set still
\* holds that key; it is the set before the tick plus the key while that
\* holds at most MaxExecutedKeys keys, and only the keys of the current local
\* date among them once it holds more, so after the tick the set has at most
\* MaxExecutedKeys keys or only keys of one date.  A tick that does not act
\* leaves the set alone.
C34_KeysCutDownPastTheLimit ==
    last_tick.made =>
        LET with_key == last_tick.keys_before \cup {last_tick.run_key}
        IN  /\ ~last_tick.started => executed_keys = last_tick.keys_before
            /\ last_tick.started =>
                  /\ last_tick.run_key \in executed_keys
                  /\ Cardinality(with_key) <= MaxExecutedKeys => executed_keys = with_key
                  /\ Cardinality(with_key) > MaxExecutedKeys =>
                        executed_keys = KeysOfToday(with_key)
                  /\ \/ Cardinality(executed_keys) <= MaxExecutedKeys
                     \/ executed_keys = KeysOfToday(executed_keys)

\* C34 witness: the tick found MaxExecutedKeys keys, added its own and cut
\* the set down to the keys of its date, its own among them.
C34_Witness ==
    /\ TickActed
    /\ Cardinality(last_tick.keys_before) = MaxExecutedKeys
    /\ last_tick.run_key \notin last_tick.keys_before
    /\ last_tick.run_key \in executed_keys
    /\ Cardinality(executed_keys) < MaxExecutedKeys
    /\ executed_keys = KeysOfToday(executed_keys)

-----------------------------------------------------------------------------
(* The live configuration: the row of scheduler_configs changes between    *)
(* two calls of _run_if_due, by PUT /scheduler/config or by a write to the *)
(* table that does not pass the endpoint's checks.                         *)

\* rows as a write to the table can leave them: a poll interval and a bucket
\* width below the endpoint's ranges, a zone ZoneInfo does not know
StoredRows ==
    {[present |-> TRUE, enabled |-> TRUE, timezone |-> LosAngeles, times_csv |-> Text0900,
      poll_seconds |-> 1, reuse_bucket_hours |-> 0 - 1],
     [present |-> TRUE, enabled |-> TRUE, timezone |-> <<"Mars/Base">>, times_csv |-> Text0900,
      poll_seconds |-> 300, reuse_bucket_hours |-> 12],
     [present |-> TRUE, enabled |-> FALSE, timezone |-> Seoul, times_csv |-> Text0000,
      poll_seconds |-> 5, reuse_bucket_hours |-> 6]}

\* a committed write to the row with id 1, between two calls of _run_if_due
store_scheduler_config ==
    /\ batch = NoBatch
    /\ last_tick = NoTick
    /\ \E row \in StoredRows : scheduler_config' = row
    /\ UNCHANGED <<executed_keys, watches, users, notification_settings, batch, fired, last_tick>>
    /\ UNCHANGED <<ingestVars, priceVars, bargainVars, alertVars, apiVars>>

NextLive ==
    \/ clock_advance
    \/ put_scheduler_config
    \/ store_scheduler_config
    \/ run_if_due_check
    \/ tick_seen
    \/ run_if_due_ingest
    \/ run_if_due_alert
    \/ run_if_due_return

LiveInit == TickInitOver({{}}, {OneWatch})

SpecLive == LiveInit /\ [][NextLive]_vars

\* what the store and, without a row, the settings say at the tick
ConfiguredEnabled ==
    IF scheduler_config.present THEN scheduler_config.enabled
    ELSE SchedulerSettings.scheduler_enabled
ConfiguredTimezone ==
    IF scheduler_config.present THEN scheduler_config.timezone
    ELSE SchedulerSettings.scheduler_timezone
ConfiguredTimesCsv ==
    IF scheduler_config.present THEN scheduler_config.times_csv
    ELSE SchedulerSettings.scheduler_times_csv
ConfiguredPollSeconds ==
    IF scheduler_config.present THEN scheduler_config.poll_seconds
    ELSE SchedulerSettings.scheduler_poll_seconds
ConfiguredReuseBucketHours ==
    IF scheduler_config.present THEN scheduler_config.reuse_bucket_hours
    ELSE settings_window

\* C35: every tick works with the configuration as the store holds it at
\* that tick (enabled flag, fire times, timezone, reuse bucket width, poll
\* interval), whatever an earlier tick of the same process read; a tick of a
\* disabled scheduler starts no batch; the time the loop sleeps after the
\* tick is the configured poll interval, or 5 seconds if that is less.
C35_EveryTickReadsTheStoredConfig ==
    last_tick.made =>
        /\ last_tick.config.enabled = ConfiguredEnabled
        /\ last_tick.config.timezone = ConfiguredTimezone
        /\ last_tick.config.times = parse_times(ConfiguredTimesCsv)
        /\ last_tick.config.reuse_bucket_hours =
              (IF ConfiguredReuseBucketHours < 0 THEN 0 ELSE ConfiguredReuseBucketHours)
        /\ last_tick.hhmm =
              strftime_hhmm(LocalNow(last_tick.at, ResolveZone(ConfiguredTimezone)))
        /\ last_tick.started =>
              /\ ConfiguredEnabled
              /\ last_tick.hhmm \in parse_times(ConfiguredTimesCsv)
              /\ batch.reuse_bucket_hours = last_tick.config.reuse_bucket_hours
        /\ ~ConfiguredEnabled => (~last_tick.started /\ batch = NoBatch)
        /\ last_tick.poll_seconds >= 5
        /\ last_tick.poll_seconds =
              (IF ConfiguredPollSeconds < 5 THEN 5 ELSE ConfiguredPollSeconds)

\* C35 witness: the scheduler started a batch at 00:00 on the clock of
\* Asia/Seoul under the settings; then the row was written with
\* America/Los_Angeles, 09:00, a poll interval of 1 second and a bucket width
\* of -1; the same process starts its next batch at 09:00 on that zone's
\* clock, with bucket width 0, and sleeps 5 seconds.
C35_Witness ==
    /\ last_tick.made
    /\ last_tick.started
    /\ Len(fired) = 2
    /\ fired[1].run_key = RunKey(LocalNow(fired[1].at, Seoul))
    /\ fired[1].run_key.hhmm = Text0000
    /\ scheduler_config.present
    /\ scheduler_config.timezone = LosAngeles
    /\ scheduler_config.poll_seconds = 1
    /\ last_tick.run_key = RunKey(LocalNow(last_tick.at, LosAngeles))
    /\ last_tick.hhmm = Text0900
    /\ last_tick.poll_seconds = 5
    /\ batch.reuse_bucket_hours = 0

-----------------------------------------------------------------------------
(* crawler/naver_client.py _request_json: the attempts of one call, each   *)
(* with what urlopen, the decoding of the body and json.loads gave.        *)

\* settings.py line 18: crawler_max_retry, Field(ge=0, le=10); the values of
\* the scenario
MaxRetryValues == {0, 1, 2, 3}

\* what one attempt meets: a body that is a JSON object (with its "success"
\* and "code"), a body that is JSON but no object, a body that is no JSON, a
\* body that is no UTF-8, an HTTP error status, URLError, TimeoutError
HttpResponse(kind, status, success, code) ==
    [kind |-> kind, status |-> status, success |-> success, code |-> code]

ApiCodes == {<<"TOO_MANY_REQUESTS">>, <<"TEMPORARY_ERROR">>, <<"INTERNAL_SERVER_ERROR">>,
             <<"NOT_FOUND">>, <<>>, NoneText}

AttemptResponses ==
    {HttpResponse("object", 200, s, NoneText) : s \in {"true", "absent"}}
    \cup {HttpResponse("object", 200, "false", c) : c \in ApiCodes}
    \cup {HttpResponse(k, 200, "absent", NoneText) : k \in {"not an object", "not json", "not utf-8"}}
    \cup {HttpResponse("http error", st, "absent", NoneText) :
             st \in {400, 403, 404, 429, 499, 500, 503, 599, 600}}
    \cup {HttpResponse(k, 0, "absent", NoneText) : k \in {"url error", "timeout"}}

\* lines 17-19
is_retryable_status(code) == code = 429 \/ (500 <= code /\ code < 600)

\* lines 21-25
is_retryable_api_code(code) ==
    IF code = NoneText \/ code = <<>> THEN FALSE
    ELSE code \in {<<"TOO_MANY_REQUESTS">>, <<"TEMPORARY_ERROR">>, <<"INTERNAL_SERVER_ERROR">>}

\* lines 108-139: one pass of the loop body; "continue" goes on to the next
\* attempt_index, anything else leaves _request_json
attempt_outcome(response, attempt_index, max_attempts) ==
    LET may_retry == attempt_index < max_attempts - 1
    IN  IF response.kind = "not utf-8" THEN "UnicodeDecodeError"
        ELSE IF response.kind = "not json" THEN "RuntimeError"
        ELSE IF response.kind = "not an object" THEN "AttributeError"
        ELSE IF response.kind = "object"
        THEN IF response.success = "false"
             THEN IF may_retry /\ is_retryable_api_code(response.code) THEN "continue"
                  ELSE "RuntimeError"
             ELSE "payload"
        ELSE IF response.kind = "http error"
        THEN IF may_retry /\ is_retryable_status(response.status) THEN "continue"
             ELSE "RuntimeError"
        ELSE IF may_retry THEN "continue" ELSE "RuntimeError"

RequestInit ==
    /\ IngestInit
    /\ PriceIdle
    /\ BargainIdle
    /\ AlertIdle
    /\ ServiceIdle

\* line 105
request_json_called ==
    /\ api_call = NoRequest
    /\ \E crawler_max_retry \in MaxRetryValues :
          api_call' = [op |-> "_request_json",
                       crawler_max_retry |-> crawler_max_retry,
                       max_attempts |-> Max(1, crawler_max_retry),
                       attempt_index |-> 0,
                       responses |-> <<>>,
                       outcome |-> "running"]
    /\ UNCHANGED <<registration_attempts, register_threads, register_log, auth_refresh_tokens>>
    /\ UNCHANGED <<ingestVars, priceVars, bargainVars, alertVars, tickVars>>

\* lines 107-139: the HTTP attempt of attempt_index; line 141 when the range
\* is used up
request_json_attempt ==
    /\ api_call # NoRequest
    /\ api_call.op = "_request_json"
    /\ api_call.outcome = "running"
    /\ IF api_call.attempt_index >= api_call.max_attempts
       THEN api_call' = [api_call EXCEPT !.outcome = "RuntimeError"]
       ELSE \E response \in AttemptResponses :
               LET how == attempt_outcome(response, api_call.attempt_index,
                                          api_call.max_attempts)
               IN  api_call' = [api_call EXCEPT
                                   !.responses = Append(@, response),
                                   !.attempt_index = IF how = "continue" THEN @ + 1 ELSE @,
                                   !.outcome = IF how = "continue" THEN "running" ELSE how]
    /\ UNCHANGED <<registration_attempts, register_threads, register_log, auth_refresh_tokens>>
    /\ UNCHANGED <<ingestVars, priceVars, bargainVars, alertVars, tickVars>>

\* the caller has the payload or the exception
request_json_left ==
    /\ api_call # NoRequest
    /\ api_call.op = "_request_json"
    /\ api_call.outcome # "running"
    /\ api_call' = NoRequest
    /\ UNCHANGED <<registration_attempts, register_threads, register_log, auth_refresh_tokens>>
    /\ UNCHANGED <<ingestVars, priceVars, bargainVars, alertVars, tickVars>>

NextRequest ==
    \/ request_json_called
    \/ request_json_attempt
    \/ request_json_left

SpecRequest == RequestInit /\ [][NextRequest]_vars

InRequest == api_call # NoRequest /\ api_call.op = "_request_json"

\* the response is one the claim lets _request_json try again after
RetryableResponse(response) ==
    \/ response.kind = "http error" /\ (response.status = 429 \/ response.status \in 500..599)
    \/ response.kind \in {"url error", "timeout"}
    \/ /\ response.kind = "object" /\ response.success = "false"
       /\ response.code \in {<<"TOO_MANY_REQUESTS">>, <<"TEMPORARY_ERROR">>,
                             <<"INTERNAL_SERVER_ERROR">>}

\* never more HTTP attempts than max(1, crawler_max_retry), and every attempt
\* but the last met a retryable response
AttemptsBoundedAndJustified ==
    InRequest =>
        /\ Len(api_call.responses) <=
              (IF api_call.crawler_max_retry < 1 THEN 1 ELSE api_call.crawler_max_retry)
        /\ \A i \in 1..(Len(api_call.responses) - 1) : RetryableResponse(api_call.responses[i])
        /\ api_call.outcome = "running" =>
              \A i \in 1..Len(api_call.responses) : RetryableResponse(api_call.responses[i])

\* invalid JSON and a non-retryable status end the call with RuntimeError at
\* once; a response that is no failure ends it with the payload
EndsOnTheFirstFinalResponse ==
    (InRequest /\ api_call.responses # <<>>) =>
        LET last == api_call.responses[Len(api_call.responses)]
        IN  /\ ( \/ last.kind = "not json"
                 \/ last.kind = "http error" /\ ~RetryableResponse(last) )
                   => api_call.outcome = "RuntimeError"
            /\ api_call.outcome = "payload" =>
                  (last.kind = "object" /\ last.success # "false")

\* C36: every call of _request_json ends after at most
\* max(1, crawler_max_retry) HTTP attempts with a payload or a RuntimeError;
\* it tries again only after HTTP 429 or 5xx, a network error, a timeout or
\* a retryable API code, and raises at the first invalid JSON or
\* non-retryable status.
C36_BoundedAttemptsPayloadOrRuntimeError ==
    /\ AttemptsBoundedAndJustified
    /\ EndsOnTheFirstFinalResponse
    /\ InRequest => api_call.outcome \in {"running", "payload", "RuntimeError"}

-----------------------------------------------------------------------------
(* detect_bargains over databases with listings whose price text parsed to *)
(* 0 (parsers.py line 19 for "0", lines 13-17 for a text without digits    *)
(* around its unit), as ingest.py lines 109-124 store them.                *)

\* listings priced 0 and at the baseline, in the older and in the latest run
ZeroPriceKinds ==
    << <<1, PlainSale(<<"0">>)>>, <<1, PlainSale(Text50000)>>,
       <<2, PlainSale(<<"0">>)>>, <<2, PlainSale(Text50000)>> >>

ZeroPriceQueries ==
    [complex_no : {1},
     lookback_days : {1, 2},
     discount_threshold : {Threshold8Pct},
     trade_type_name : {NoneText, Maemae},
     rate10 : {51}]

ZeroPriceInit == BargainInitOver(SnapshotListsOf(ZeroPriceKinds))

detect_bargains_zero_price == DetectBargainsOver(ZeroPriceQueries)

NextZeroPrice == detect_bargains_zero_price

SpecZeroPrice == ZeroPriceInit /\ [][NextZeroPrice]_vars

\* C37: detect_bargains never divides by zero: whenever it computes a
\* discount rate the baseline median is strictly positive, also over
\* databases that hold listings whose parsed price is 0.
C37_NeverDividesByZero ==
    bargain_result.computed => bargain_result.out.raised # "ZeroDivisionError"

-----------------------------------------------------------------------------
(* The two ways to the candidates of a dispatch: the scheduler's            *)
(* _dispatch_alerts_for_complex and POST /me/alerts/bargains/dispatch, for  *)
(* a user who watches complex 1 only.                                       *)

PathKinds ==
    << <<1, Sale50000>>, <<2, Sale50000>>, <<2, Sale45000>>, <<2, Rent30000>> >>

\* the notification rows of the scenario: the interest in a trade type and
\* the conversion rate the user keeps
PathSettings ==
    [present : {TRUE},
     interest_trade_type : {AllText, Maemae, Wolse},
     monthly_rent_conversion_rate_pct : {None, 42},
     bargain_lookback_days : {2},
     bargain_discount_threshold : {Threshold8Pct}]

\* alerts.py lines 29-60 for the one watched complex: the keyword defaults
\* are trade_type_name=None and monthly_conversion_rate_pct=5.1
collect_user_bargains(db, lookback_days, discount_threshold, trade_type_name, rate10, complex_no, latest_run, t) ==
    detect_bargains(db, complex_no, lookback_days, discount_threshold, trade_type_name,
                    rate10, latest_run, t)

\* scheduler.py lines 89-95: neither trade_type_name nor
\* monthly_conversion_rate_pct is passed
scheduler_candidates(db, setting, complex_no, latest_run, t) ==
    collect_user_bargains(db, setting.bargain_lookback_days,
                          setting.bargain_discount_threshold, NoneText, 51,
                          complex_no, latest_run, t)

\* main.py lines 1569-1576 with lines 299-342: the setting's interest and
\* rate go through _resolve_trade_type_and_conversion
manual_candidates(db, setting, complex_no, latest_run, t) ==
    LET resolved == resolve_trade_type_and_conversion(setting.interest_trade_type,
                        setting.monthly_rent_conversion_rate_pct, setting)
    IN  detect_bargains(db, complex_no, setting.bargain_lookback_days,
                        setting.bargain_discount_threshold, resolved.trade_type_name,
                        resolved.rate10, latest_run, t)

PathsInit == BargainInitOver(SnapshotListsOf(PathKinds))

\* both paths over the same database, for the same user and complex
candidates_collected ==
    /\ bargain_result = NotComputed
    /\ \E setting \in PathSettings :
       \E latest_run \in LatestRunChoices(crawl_runs, 1) :
          /\ bargain_query' = setting
          /\ bargain_result' =
                [computed |-> TRUE,
                 scheduler |-> scheduler_candidates(Database, setting, 1, latest_run, now),
                 manual |-> manual_candidates(Database, setting, 1, latest_run, now)]
    /\ UNCHANGED <<ingestVars, priceVars, alertVars, tickVars, apiVars>>

NextPaths == candidates_collected

SpecPaths == PathsInit /\ [][NextPaths]_vars

ArticlesOf(out) == {out.items[k].article_no : k \in 1..Len(out.items)}

\* C38: for a user and a complex, the scheduler path and the manual
\* dispatch endpoint compute the same candidates: both filter by the user's
\* preferred trade type and use the user's conversion rate.
C38_SameCandidatesOnBothPaths ==
    bargain_result.computed =>
        ArticlesOf(bargain_result.scheduler) = ArticlesOf(bargain_result.manual)

-----------------------------------------------------------------------------
(* services/scheduler.py run() and worker.py: the loop around _run_if_due, *)
(* with the exceptions the session factory, the queries, the ingestion, the *)
(* dispatch and the rollback can raise.  fired holds the events of the     *)
(* current call of _run_if_due.                                            *)

\* the complexes of a due tick
LoopComplexes == <<1, 2>>

\* run() between two calls of _run_if_due (line 72)
LoopAsleep(ticks) == [pc |-> "sleep", todo |-> <<>>, ticks |-> ticks, raised |-> ""]

LoopInit ==
    /\ IngestInit
    /\ PriceIdle
    /\ BargainIdle
    /\ AlertIdle
    /\ ApiIdle
    /\ executed_keys = {}
    /\ scheduler_config = NoRow
    /\ watches = {}
    /\ users = <<>>
    /\ notification_settings = <<>>
    /\ batch = LoopAsleep(0)
    /\ fired = <<>>
    /\ last_tick = NoTick

LoopStep(pc, todo, event) ==
    /\ batch' = [batch EXCEPT !.pc = pc, !.todo = todo]
    /\ fired' = Append(fired, event)

\* an exception no handler of _run_if_due, run() or run_scheduler_worker
\* takes: asyncio.to_thread re-raises it in run() (line 71), the coroutine
\* ends and asyncio.run returns it to main() (worker.py lines 19-23)
LoopExits(event) ==
    /\ batch' = [batch EXCEPT !.pc = "exited", !.raised = event]
    /\ fired' = Append(fired, event)

\* scheduler.py lines 69-71: the next call of _run_if_due
loop_calls_run_if_due ==
    /\ batch.pc = "sleep"
    /\ batch.ticks < MaxBatches
    /\ batch' = [batch EXCEPT !.pc = "open", !.ticks = @ + 1]
    /\ fired' = <<>>
    /\ UNCHANGED <<executed_keys, scheduler_config, watches, users, notification_settings,
                   last_tick>>
    /\ UNCHANGED <<ingestVars, priceVars, bargainVars, alertVars, apiVars>>

\* line 114: db = get_session_factory()(), before the try
session_opened ==
    /\ batch.pc = "open"
    /\ \/ LoopStep("load", <<>>, "session")
       \/ LoopExits("session factory raised")
    /\ UNCHANGED <<executed_keys, scheduler_config, watches, users, notification_settings,
                   last_tick>>
    /\ UNCHANGED <<ingestVars, priceVars, bargainVars, alertVars, apiVars>>

\* lines 115-139 inside try/finally: the configuration queries, then the
\* tick is due or returns poll_seconds
config_loaded ==
    /\ batch.pc = "load"
    /\ \/ LoopStep("ingest", LoopComplexes, "due")
       \/ LoopStep("sleep", <<>>, "not due")
       \/ LoopExits("config query raised")
    /\ UNCHANGED <<executed_keys, scheduler_config, watches, users, notification_settings,
                   last_tick>>
    /\ UNCHANGED <<ingestVars, priceVars, bargainVars, alertVars, apiVars>>

\* lines 154-164 and 170: ingest_complex_snapshot for the next complex, or
\* line 173 when none is left
complex_ingested ==
    /\ batch.pc = "ingest"
    /\ IF batch.todo = <<>>
       THEN LoopStep("sleep", <<>>, "returned")
       ELSE \/ LoopStep("dispatch", batch.todo, "ingested")
            \/ LoopStep("rollback", batch.todo, "ingest raised")
    /\ UNCHANGED <<executed_keys, scheduler_config, watches, users, notification_settings,
                   last_tick>>
    /\ UNCHANGED <<ingestVars, priceVars, bargainVars, alertVars, apiVars>>

\* lines 165-167: _dispatch_alerts_for_complex
alerts_dispatched ==
    /\ batch.pc = "dispatch"
    /\ \/ LoopStep("ingest", Tail(batch.todo), "dispatched")
       \/ LoopStep("rollback", batch.todo, "dispatch raised")
    /\ UNCHANGED <<executed_keys, scheduler_config, watches, users, notification_settings,
                   last_tick>>
    /\ UNCHANGED <<ingestVars, priceVars, bargainVars, alertVars, apiVars>>

\* lines 168 and 171: db.rollback() inside the except blocks
rolled_back ==
    /\ batch.pc = "rollback"
    /\ \/ LoopStep("ingest", Tail(batch.todo), "rolled back")
       \/ LoopExits("rollback raised")
    /\ UNCHANGED <<executed_keys, scheduler_config, watches, users, notification_settings,
                   last_tick>>
    /\ UNCHANGED <<ingestVars, priceVars, bargainVars, alertVars, apiVars>>

NextLoop ==
    \/ loop_calls_run_if_due
    \/ session_opened
    \/ config_loaded
    \/ complex_ingested
    \/ alerts_dispatched
    \/ rolled_back

SpecLoop == LoopInit /\ [][NextLoop]_vars

\* C39: run() never ends because of an exception raised inside a tick,
\* whether by opening the session, by loading the configuration, by an
\* ingestion, by a dispatch or by a rollback.
C39_LoopSurvivesEveryTick == batch.pc # "exited"

-----------------------------------------------------------------------------
(* main.py: POST /auth/refresh and POST /auth/logout, handled by threads   *)
(* that each hold a session.  The row lock of SELECT ... FOR UPDATE is     *)
(* kept until the transaction of the handler ends; a plain SELECT reads    *)
(* the committed row whoever holds the lock; an UPDATE waits for the lock. *)

MaxAuthRequests == 4

RefreshHandlers == {"refresh a", "refresh b"}
LogoutHandlers == {"logout"}
AuthHandlers == RefreshHandlers \cup LogoutHandlers

HandlerIdle == [pc |-> "idle", jti |-> None, revoked_at |-> None]

\* the row _issue_auth_tokens adds (lines 140-146)
RefreshRow(jti) ==
    [jti |-> jti, revoked_at |-> None, replaced_by_jti |-> None, locked_by |-> "nobody"]

RefreshInit ==
    /\ IngestInit
    /\ PriceIdle
    /\ BargainIdle
    /\ AlertIdle
    /\ TickIdle
    /\ registration_attempts = <<>>
    /\ register_threads = [h \in AuthHandlers |-> HandlerIdle]
    /\ register_log = <<>>
    /\ auth_refresh_tokens = <<RefreshRow(1)>>
    /\ api_call = NoRequest

\* a slip that leaves out .with_for_update()
SelectWaitsForNobody(row) == TRUE

\* line 832: the SELECT waits while another transaction holds the row lock
SelectWaitsForUpdate(row) == row.locked_by = "nobody"

\* requests answered or being handled
AuthRequests ==
    Len(register_log) + Cardinality({h \in AuthHandlers : register_threads[h].pc # "idle"})

\* lines 814-833: the token decodes, and the row is read under its lock
refresh_select_for_update ==
    \E h \in RefreshHandlers, jti \in 1..Len(auth_refresh_tokens) :
        /\ register_threads[h].pc = "idle"
        /\ AuthRequests < MaxAuthRequests
        /\ SelectWaitsForUpdate(auth_refresh_tokens[jti])
        /\ auth_refresh_tokens' = [auth_refresh_tokens EXCEPT ![jti].locked_by = h]
        /\ register_threads' = [register_threads EXCEPT ![h] =
              [pc |-> "locked", jti |-> jti,
               revoked_at |-> auth_refresh_tokens[jti].revoked_at]]
        /\ UNCHANGED <<registration_attempts, register_log, api_call>>
        /\ UNCHANGED <<ingestVars, priceVars, bargainVars, alertVars, tickVars>>

\* lines 834-849: 401 for a revoked row (the session closes and the lock is
\* released), else the new tokens, revoked_at and replaced_by_jti, commit
refresh_answered ==
    \E h \in RefreshHandlers :
        /\ register_threads[h].pc = "locked"
        /\ LET jti == register_threads[h].jti
               accepted == register_threads[h].revoked_at = None
               new_refresh_jti == Len(auth_refresh_tokens) + 1
           IN  /\ auth_refresh_tokens' =
                     IF accepted
                     THEN Append([auth_refresh_tokens EXCEPT
                                     ![jti].revoked_at = now,
                                     ![jti].replaced_by_jti = new_refresh_jti,
                                     ![jti].locked_by = "nobody"],
                                 RefreshRow(new_refresh_jti))
                     ELSE [auth_refresh_tokens EXCEPT ![jti].locked_by = "nobody"]
               /\ register_log' = Append(register_log,
                     [handler |-> h, jti |-> jti,
                      status |-> IF accepted THEN 200 ELSE 401])
        /\ register_threads' = [register_threads EXCEPT ![h] = HandlerIdle]
        /\ UNCHANGED <<registration_attempts, api_call>>
        /\ UNCHANGED <<ingestVars, priceVars, bargainVars, alertVars, tickVars>>

\* lines 884-892: the row is read without a lock
logout_select ==
    \E h \in LogoutHandlers, jti \in 1..Len(auth_refresh_tokens) :
        /\ register_threads[h].pc = "idle"
        /\ AuthRequests < MaxAuthRequests
        /\ register_threads' = [register_threads EXCEPT ![h] =
              [pc |-> "read", jti |-> jti,
               revoked_at |-> auth_refresh_tokens[jti].revoked_at]]
        /\ UNCHANGED <<registration_attempts, register_log, auth_refresh_tokens, api_call>>
        /\ UNCHANGED <<ingestVars, priceVars, bargainVars, alertVars, tickVars>>

\* lines 893-899: revoked_at is set if the row read was not revoked; the
\* UPDATE of the commit waits for the row lock
logout_answered ==
    \E h \in LogoutHandlers :
        /\ register_threads[h].pc = "read"
        /\ LET jti == register_threads[h].jti
               changed == register_threads[h].revoked_at = None
           IN  /\ changed => auth_refresh_tokens[jti].locked_by = "nobody"
               /\ auth_refresh_tokens' =
                     IF changed
                     THEN [auth_refresh_tokens EXCEPT ![jti].revoked_at = now]
                     ELSE auth_refresh_tokens
               /\ register_log' = Append(register_log,
                     [handler |-> h, jti |-> jti, status |-> 200])
        /\ register_threads' = [register_threads EXCEPT ![h] = HandlerIdle]
        /\ UNCHANGED <<registration_attempts, api_call>>
        /\ UNCHANGED <<ingestVars, priceVars, bargainVars, alertVars, tickVars>>

NextRefresh ==
    \/ refresh_select_for_update
    \/ refresh_answered
    \/ logout_select
    \/ logout_answered

SpecRefresh == RefreshInit /\ [][NextRefresh]_vars

\* the /auth/refresh requests that got new tokens for the token
RefreshesAccepted(jti) ==
    {i \in 1..Len(register_log) :
        /\ register_log[i].handler \in RefreshHandlers
        /\ register_log[i].jti = jti
        /\ register_log[i].status = 200}

====
